---- MODULE Spec2Model ----
(***************************************************************************)
(* A model of the two IR passes of Stabilizer:                             *)
(*   - Intrinsic Lowering   (src/pass/LowerIntrinsics.cpp)                 *)
(*   - Stabilizer Transform (src/unnamed/part_001, struct StabilizerImpl)  *)
(* The module being transformed is an arena of functions and globals that  *)
(* refer to one another by stable handles (field h); names are mutable.    *)
(***************************************************************************)
EXTENDS Integers, Sequences, FiniteSets, TLC

(***************************************************************************)
(* Bounds of the input modules                                             *)
(***************************************************************************)
MaxFuncs == 2      \* locally defined functions in the input module
MaxCtors == 2      \* entries of the pre-existing constructor table

(***************************************************************************)
(* Program constants                                                       *)
(***************************************************************************)
ALIGN == 64
CtorPriority == 65535
StackAlignment == 16

VARIABLES
    funcs,            \* Module function list (ordered)
    globals,          \* Module global variables (ordered)
    arch,             \* architecture component of the target triple
    ptrSize,          \* DataLayout pointer size in bytes
    stabilize_heap, stabilize_stack, stabilize_code,   \* cl::opt flags
    pc,               \* position inside StabilizerImpl::operator()
    local_functions,  \* set<Function*>, as the sequence its iteration yields
    stackPads,        \* map<Function*, GlobalVariable*>
    old_ctors,        \* vector<Value*> returned by getConstructors
    idx,              \* position of the running loop
    nextId,           \* fresh instruction identities
    LastUnique,       \* ValueSymbolTable counter for colliding names
    input,            \* history: the module as it was handed to the pass
    hist,             \* history: per function, what the sub-passes recorded
    toDelete,         \* lowerInstrinsicsPass: set<Function*> toDelete
    warnings,         \* lowerInstrinsicsPass: the lines written to errs()
    sp,               \* a padded call site at run time: the stack pointer
    padByte,          \* ... the byte the runtime has stored in the stack pad
    regs,             \* ... the values of the instructions executed so far
    poison            \* ... a no-unsigned-wrap operation has wrapped

vars == <<funcs, globals, arch, ptrSize, stabilize_heap, stabilize_stack,
          stabilize_code, pc, local_functions, stackPads, old_ctors, idx,
          nextId, LastUnique, input, hist, toDelete, warnings,
          sp, padByte, regs, poison>>

(***************************************************************************)
(* Values.  Constants are structural (LLVM uniques them), instructions     *)
(* are referred to by identity.                                            *)
(***************************************************************************)
Fn(h)        == [k |-> "fn", h |-> h]                 \* llvm::Function
GV(h)        == [k |-> "gv", h |-> h]                 \* llvm::GlobalVariable
Expr(ty, o)  == [k |-> "expr", ty |-> ty, ops |-> o]  \* llvm::ConstantExpr
Agg(o)       == [k |-> "agg", ops |-> o]              \* ConstantStruct/Array/Vector
FP           == [k |-> "fp"]                          \* llvm::ConstantFP
CInt(w, n)   == [k |-> "int", w |-> w, v |-> n]       \* llvm::ConstantInt
Null         == [k |-> "null"]                        \* ConstantPointerNull
Inst(id)     == [k |-> "inst", id |-> id]             \* result of an instruction
Arg(ty)      == [k |-> "arg", ty |-> ty]              \* llvm::Argument
ZeroInit     == [k |-> "zeroinit"]                    \* ConstantAggregateZero

isConstant(v) == v.k \in {"fn", "gv", "expr", "agg", "fp", "int", "null", "zeroinit"}
hasOperands(v) == v.k \in {"expr", "agg"}

\* Constant::getType, as far as the pass looks at it
TypeOf(v) ==
    CASE v.k \in {"fn", "gv", "null"} -> "ptr"
      [] v.k = "expr" -> v.ty
      [] v.k = "agg"  -> "struct"
      [] v.k = "fp"   -> "double"
      [] v.k = "int"  -> "i" \o ToString(v.w)
      [] OTHER        -> "value"

(***************************************************************************)
(* Instructions, functions, globals                                        *)
(***************************************************************************)
\* inc: the incoming blocks of a PHI, one per operand; nm: the name given
\* to the instruction when the pass created it.
Instr(id, op, ty, ops) ==
    [id |-> id, op |-> op, ty |-> ty, ops |-> ops, inc |-> <<>>, nm |-> ""]
Named(id, op, ty, ops, nm) ==
    [id |-> id, op |-> op, ty |-> ty, ops |-> ops, inc |-> <<>>, nm |-> nm]
Phi(id, ty, ops, inc) ==
    [id |-> id, op |-> "phi", ty |-> ty, ops |-> ops, inc |-> inc, nm |-> ""]

Function(h, ty, linkage, blocks) ==
    [h |-> h, name |-> h, ty |-> ty, linkage |-> linkage, attrs |-> {},
     align |-> 0, blocks |-> blocks]

GlobalVariable(h, ty, isConst, linkage, init) ==
    [h |-> h, name |-> h, ty |-> ty, const |-> isConst, linkage |-> linkage,
     init |-> init]

\* Names that carry the reserved "llvm." prefix (Function::isIntrinsic)
IntrinsicNames == {"llvm.stacksave", "llvm.stackrestore", "llvm.trap",
                   "llvm.memcpy.p0.p0.i64", "llvm.memcpy.p0.p0.i32",
                   "llvm.sqrt.f64", "llvm.dbg.value", "llvm.unknown"}

isIntrinsic(f)   == f.name \in IntrinsicNames
isDeclaration(f) == f.blocks = <<>>

Range(s) == {s[i] : i \in DOMAIN s}

\* Module::getFunction / Module::getGlobalVariable: lookup by current name
hasFunction(F, name) == \E i \in DOMAIN F : F[i].name = name
getFunction(F, name) == F[CHOOSE i \in DOMAIN F : F[i].name = name]
\* lookup by handle (a Function* held by the pass)
FnAt(F, h)  == CHOOSE i \in DOMAIN F : F[i].h = h
FnOf(F, h)  == F[FnAt(F, h)]
hasHandle(F, h) == \E i \in DOMAIN F : F[i].h = h

AllInstrs(f) == UNION {Range(f.blocks[b]) : b \in DOMAIN f.blocks}

\* the sequences that enumerate a finite set, each member once
RECURSIVE PermSeqs(_)
PermSeqs(S) ==
    IF S = {} THEN {<<>>}
    ELSE UNION {{<<x>> \o p : p \in PermSeqs(S \ {x})} : x \in S}

Reverse(s) == [i \in DOMAIN s |-> s[Len(s) + 1 - i]]

\* sequencing of two steps of a handler: the result v of the first step is
\* computed once and handed to the rest of the handler
Bind(v, rest(_)) == CHOOSE r \in {rest(y) : y \in {v}} : TRUE

(***************************************************************************)
(* Editing a function body (a sequence of basic blocks, each a sequence    *)
(* of instructions)                                                        *)
(***************************************************************************)
InsertAt(s, i, e) == SubSeq(s, 1, i - 1) \o e \o SubSeq(s, i, Len(s))

BlockOf(blocks, id) ==
    CHOOSE b \in DOMAIN blocks : \E i \in DOMAIN blocks[b] : blocks[b][i].id = id
IndexOf(blk, id) == CHOOSE i \in DOMAIN blk : blk[i].id = id
InstrOf(blocks, id) ==
    LET b == BlockOf(blocks, id) IN blocks[b][IndexOf(blocks[b], id)]

\* `new XInst(..., InsertBefore)`: place the instructions of seq, in order,
\* directly before instruction id
InsertBefore(blocks, id, seq) ==
    LET b == BlockOf(blocks, id) IN
    [blocks EXCEPT ![b] = InsertAt(@, IndexOf(@, id), seq)]

\* BasicBlock::getTerminator
getTerminator(blk) == blk[Len(blk)]

\* Use::set
SetOperand(blocks, id, o, v) ==
    LET b == BlockOf(blocks, id) IN
    [blocks EXCEPT ![b][IndexOf(blocks[b], id)].ops[o] = v]

\* Instruction::eraseFromParent
EraseInstr(blocks, id) ==
    LET b == BlockOf(blocks, id)
        i == IndexOf(blocks[b], id) IN
    [blocks EXCEPT ![b] = SubSeq(@, 1, i - 1) \o SubSeq(@, i + 1, Len(@))]

\* Value::replaceAllUsesWith, seen from one value that may hold a use
RECURSIVE SubstValue(_, _, _)
SubstValue(v, old, new) ==
    IF v = old THEN new
    ELSE IF hasOperands(v)
         THEN [v EXCEPT !.ops = [i \in DOMAIN v.ops |-> SubstValue(v.ops[i], old, new)]]
         ELSE v

SubstBlocks(blocks, old, new) ==
    [b \in DOMAIN blocks |->
        [i \in DOMAIN blocks[b] |->
            [blocks[b][i] EXCEPT !.ops =
                [o \in DOMAIN @ |-> SubstValue(@[o], old, new)]]]]

\* Value::replaceAllUsesWith over the functions of the module
replaceAllUsesWith(F, old, new) ==
    [i \in DOMAIN F |-> [F[i] EXCEPT !.blocks = SubstBlocks(@, old, new)]]
\* ... and over the initializers of its globals
replaceAllUsesWithG(G, old, new) ==
    [i \in DOMAIN G |-> [G[i] EXCEPT !.init = SubstValue(@, old, new)]]

(***************************************************************************)
(* Platform helpers                                                        *)
(***************************************************************************)
\* getPlatform: substring tests on the lowercased triple
getPlatform(a) ==
    IF a \in {"x86_64", "amd64"} THEN "x86_64"
    ELSE IF a \in {"i386", "i486", "i586", "i686"} THEN "x86_32"
    ELSE IF a \in {"powerpc", "powerpc64"} THEN "PowerPC"
    ELSE "INVALID"

\* mutation: integers of the width of the pad byte
getByteSize(ps) == 8

getIntptrSize(ps) == IF ps = 4 THEN 32 ELSE 64
getIntptrType(ps) == IF ps = 4 THEN "i32" ELSE "i64"
getIntptr(ps, value) == CInt(getIntptrSize(ps), value)

\* mutation: only the recognised x86-64 targets count as PC-relative
isKnownPCRelative(a) == getPlatform(a) = "x86_64"

isDataPCRelative(a) ==
    CASE getPlatform(a) = "x86_64" -> TRUE
      [] getPlatform(a) \in {"x86_32", "PowerPC"} -> FALSE
      [] OTHER -> TRUE


(***************************************************************************)
(* Input modules.  Each locally defined function takes its body from a     *)
(* small catalogue; calls list their arguments first and the callee last,  *)
(* as CallInst lays out its operands.                                      *)
(***************************************************************************)
FuncNames == <<"f", "main", "g", "h">>

Body(t) ==
    CASE t = 1 ->   \* return 42
           << << Instr(1, "ret", "void", <<CInt(32, 42)>>) >> >>
      [] t = 2 ->   \* plain global, constant expression, aggregate
           << << Instr(1, "load", "i32", <<GV("g1")>>),
                 Instr(2, "load", "i32", <<Expr("ptr", <<GV("g2"), CInt(64, 1)>>)>>),
                 Instr(3, "store", "void", <<Agg(<<GV("g1")>>), Arg("ptr")>>),
                 Instr(4, "load", "i32", <<GV("g1")>>),
                 Instr(5, "ret", "void", <<Inst(1)>>) >> >>
      [] t = 3 ->   \* direct, indirect, allocator and intrinsic calls
           << << Instr(1, "call", "ptr", <<CInt(64, 8), Fn("malloc")>>),
                 Instr(2, "call", "void", <<Inst(1), Arg("ptr")>>),
                 Instr(3, "call", "void", <<Fn("llvm.trap")>>),
                 Instr(4, "store", "void", <<Fn("__gxx_personality_v0"), Inst(1)>>),
                 Instr(5, "call", "i32", <<Inst(1), Fn("ext")>>),
                 Instr(6, "ret", "void", <<Inst(5)>>) >> >>
      [] t = 4 ->   \* a loop whose PHIs take a global and a float literal
           << << Instr(1, "br", "void", <<>>) >>,
              << Phi(2, "ptr", <<GV("g1"), Null>>, <<1, 2>>),
                 Phi(3, "double", <<FP, Inst(4)>>, <<1, 2>>),
                 Instr(4, "fadd", "double", <<Inst(3), FP>>),
                 Instr(5, "br", "void", <<Arg("i1")>>) >>,
              << Instr(6, "ret", "void", <<Inst(4)>>) >> >>
      [] t = 5 ->   \* conversions and float literals
           << << Instr(1, "sitofp", "double", <<Arg("i32")>>),
                 Instr(2, "fptrunc", "float", <<Inst(1)>>),
                 Instr(3, "fptosi", "i32", <<FP>>),
                 Instr(4, "store", "void", <<Agg(<<FP>>), Arg("ptr")>>),
                 Instr(5, "ret", "void", <<Inst(2)>>) >> >>
      [] OTHER ->   \* the address of a global as an integer (ptrtoint)
           << << Instr(1, "store", "void", <<Expr("i64", <<GV("g1")>>), Arg("ptr")>>),
                 Instr(2, "ret", "void", <<>>) >> >>

NumTemplates == 6
LinkageOf(t) == IF t = 2 THEN "linkonce_odr" ELSE IF t = 3 THEN "internal" ELSE "external"
AttrsOf(t) ==
    CASE t = 2 -> {"ssp"} [] t = 3 -> {"sspreq", "sspstrong"}
      [] t = 4 -> {"sspstrong", "nounwind"} [] OTHER -> {}

\* the bodies the i-th defined function of an input module may have
TemplatesFor(i) ==
    CASE i = 1 -> 1..NumTemplates [] i = 2 -> {1, 3, 5} [] i = 3 -> {2} [] OTHER -> {1}

Declaration(h, ty) == Function(h, ty, "external", <<>>)

DefinedFunction(h, t) ==
    [Function(h, "fn", LinkageOf(t), Body(t)) EXCEPT !.attrs = AttrsOf(t)]

\* the function list of an input module with n defined functions
InputFuncs(n, tmpl) ==
    << Declaration("malloc", "ptr(i64)") >>
    \o [i \in 1..n |-> DefinedFunction(FuncNames[i], tmpl[i])]
    \o << Declaration("ext", "i32(ptr)"), Declaration("free", "void(ptr)"),
          Declaration("llvm.trap", "void()"),
          Declaration("__gxx_personality_v0", "i32(...)") >>

TemplateChoices(n) ==
    {tmpl \in [1..n -> 1..NumTemplates] : \A i \in 1..n : tmpl[i] \in TemplatesFor(i)}

\* the k-th entry { i32 priority, ptr function, ptr data } of an input
\* constructor table: priorities below, at and above the default, targets
\* that are defined in the module or only declared
CtorEntry(n, k) ==
    Agg(<< CInt(32, CASE k % 3 = 1 -> 0 [] k % 3 = 2 -> CtorPriority [] OTHER -> 101),
           Fn(IF k % 2 = 1 /\ n >= 1 THEN FuncNames[1] ELSE "ext"),
           Null >>)

NoTable == [k |-> "none"]

\* no table, an empty table, or up to MaxCtors entries
CtorTables(n) ==
    {NoTable} \cup {ZeroInit}
    \cup {Agg([k \in 1..len |-> CtorEntry(n, k)]) : len \in 1..MaxCtors}

\* the tables an input module is tried with: every table for the modules
\* whose functions only return, no table or the longest one for the others
TablesFor(n, tmpl) ==
    IF \A i \in 1..n : tmpl[i] = 1 THEN CtorTables(n)
    ELSE {NoTable, Agg([k \in 1..MaxCtors |-> CtorEntry(n, k)])}

InputGlobals(table) ==
    << GlobalVariable("g1", "i32", FALSE, "external", CInt(32, 7)),
       GlobalVariable("g2", "i32", FALSE, "external", CInt(32, 9)) >>
    \o (IF table = NoTable THEN <<>>
        ELSE << GlobalVariable("llvm.global_ctors", "array", FALSE, "appending", table) >>)

Targets == {<<"x86_64", 8>>, <<"i386", 4>>, <<"powerpc", 4>>, <<"aarch64", 8>>}

FirstFreshId == 100

Init ==
    \E n \in 0..MaxFuncs :
    \E tmpl \in TemplateChoices(n) :
    \E table \in TablesFor(n, tmpl) :
    \E tg \in Targets :
        /\ funcs = InputFuncs(n, tmpl)
        /\ globals = InputGlobals(table)
        /\ arch = tg[1]
        /\ ptrSize = tg[2]
        /\ stabilize_heap \in BOOLEAN
        /\ stabilize_stack \in BOOLEAN
        /\ stabilize_code \in BOOLEAN
        /\ pc = "heap"
        /\ local_functions = <<>>
        /\ stackPads = <<>>
        /\ old_ctors = <<>>
        /\ idx = 1
        /\ nextId = FirstFreshId
        /\ LastUnique = 0
        /\ input = [funcs |-> funcs, globals |-> globals]
        /\ hist = <<>>
        /\ toDelete = {}
        /\ warnings = <<>>
        /\ sp = <<>>
        /\ padByte = 0
        /\ regs = <<>>
        /\ poison = FALSE

(***************************************************************************)
(* randomizeHeap                                                           *)
(***************************************************************************)
\* mutation: the replacement is declared but no use is moved to it
DeclareAllocator(M, name) ==
    IF hasFunction(M.funcs, name)
    THEN [M EXCEPT !.funcs = Append(@, Function("stabilizer_" \o name,
                                                getFunction(M.funcs, name).ty,
                                                "external", <<>>))]
    ELSE M

\* one allocator: declare stabilizer_<name> and move every use to it
ReplaceAllocator(M, name) ==
    IF hasFunction(M.funcs, name)
    THEN LET old == getFunction(M.funcs, name)
             new == Function("stabilizer_" \o name, old.ty, "external", <<>>)
             F1  == Append(M.funcs, new)
         IN  [funcs   |-> replaceAllUsesWith(F1, Fn(old.h), Fn(new.h)),
              globals |-> replaceAllUsesWithG(M.globals, Fn(old.h), Fn(new.h))]
    ELSE M

randomizeHeap(M) ==
    ReplaceAllocator(ReplaceAllocator(ReplaceAllocator(ReplaceAllocator(
        M, "malloc"), "calloc"), "realloc"), "free")

\* mutation: heap randomization runs whatever the option says
HeapAlways ==
    /\ pc = "heap"
    /\ LET M == randomizeHeap([funcs |-> funcs, globals |-> globals])
       IN  /\ funcs' = M.funcs
           /\ globals' = M.globals
    /\ pc' = "snapshot"
    /\ UNCHANGED <<toDelete, warnings, sp, padByte, regs, poison>>
    /\ UNCHANGED <<arch, ptrSize, stabilize_heap, stabilize_stack, stabilize_code,
                   local_functions, stackPads, old_ctors, idx, nextId,
                   LastUnique, input, hist>>

\* operator(): if(stabilize_heap) randomizeHeap(m)
Heap ==
    /\ pc = "heap"
    /\ LET M == IF stabilize_heap
                THEN randomizeHeap([funcs |-> funcs, globals |-> globals])
                ELSE [funcs |-> funcs, globals |-> globals]
       IN  /\ funcs' = M.funcs
           /\ globals' = M.globals
    /\ pc' = "snapshot"
    /\ UNCHANGED <<toDelete, warnings, sp, padByte, regs, poison>>
    /\ UNCHANGED <<arch, ptrSize, stabilize_heap, stabilize_stack, stabilize_code,
                   local_functions, stackPads, old_ctors, idx, nextId,
                   LastUnique, input, hist>>

(***************************************************************************)
(* The snapshot of locally defined functions and the runtime declarations  *)
(***************************************************************************)
\* mutation: declarations are taken into the snapshot as well
isNamedFunction(f) ==
    /\ ~isIntrinsic(f)
    /\ f.name # "__gxx_personality_v0"

isLocalFunction(f) ==
    /\ ~isIntrinsic(f)
    /\ ~isDeclaration(f)
    /\ f.name # "__gxx_personality_v0"

\* set<Function*> local_functions: iteration follows the addresses of the
\* Function objects, so any order of the members can come out
Snapshot ==
    /\ pc = "snapshot"
    /\ \E order \in PermSeqs({funcs[i].h : i \in {j \in DOMAIN funcs : isLocalFunction(funcs[j])}}) :
           local_functions' = order
    /\ pc' = "declare"
    /\ UNCHANGED <<toDelete, warnings, sp, padByte, regs, poison>>
    /\ UNCHANGED <<funcs, globals, arch, ptrSize, stabilize_heap, stabilize_stack,
                   stabilize_code, stackPads, old_ctors, idx, nextId,
                   LastUnique, input, hist>>

RuntimeDeclaration(h, ty) ==
    [Function(h, ty, "external", <<>>) EXCEPT !.attrs = {"nonlazybind"}]

declareRuntimeFunctions(F) ==
    F \o << RuntimeDeclaration("stabilizer_register_function", "void(ptr,ptr,ptr,i32,i1,ptr)"),
            RuntimeDeclaration("stabilizer_register_constructor", "void(ptr)"),
            RuntimeDeclaration("stabilizer_register_stack_pad", "void(ptr)") >>

DeclareRuntime ==
    /\ pc = "declare"
    /\ funcs' = declareRuntimeFunctions(funcs)
    /\ pc' = "stack"
    /\ idx' = 1
    /\ UNCHANGED <<toDelete, warnings, sp, padByte, regs, poison>>
    /\ UNCHANGED <<globals, arch, ptrSize, stabilize_heap, stabilize_stack,
                   stabilize_code, local_functions, stackPads, old_ctors, nextId,
                   LastUnique, input, hist>>


(***************************************************************************)
(* randomizeStack                                                          *)
(***************************************************************************)
\* Intrinsic::getDeclaration: the declaration is added to the end of the
\* function list when the module does not have it yet
getDeclaration(F, name, ty) ==
    IF hasFunction(F, name) THEN F ELSE Append(F, Declaration(name, ty))

RECURSIVE Flatten(_)
Flatten(blocks) ==
    IF blocks = <<>> THEN <<>> ELSE Head(blocks) \o Flatten(Tail(blocks))

isCallInst(i) == i.op = "call"

\* the call sites of a body, in block and instruction order
CallSites(blocks) ==
    LET calls == SelectSeq(Flatten(blocks), isCallInst)
    IN  [k \in DOMAIN calls |-> calls[k].id]

\* the instructions put before call site c; id is the first fresh identity
PadBefore(pad, ps, id) ==
    << Named(id, "load", "i8", <<GV(pad)>>, "pad"),
       Instr(id + 1, "zext", getIntptrType(ps), <<Inst(id)>>),
       Named(id + 2, "mul_nuw", getIntptrType(ps),
             <<Inst(id + 1), getIntptr(ps, StackAlignment)>>, "aligned_pad"),
       Instr(id + 3, "call", "ptr", <<Fn("llvm.stacksave")>>),
       Instr(id + 4, "ptrtoint", getIntptrType(ps), <<Inst(id + 3)>>),
       Instr(id + 5, "sub", getIntptrType(ps), <<Inst(id + 4), Inst(id + 2)>>),
       Instr(id + 6, "inttoptr", "ptr", <<Inst(id + 5)>>),
       Instr(id + 7, "call", "void", <<Inst(id + 6), Fn("llvm.stackrestore")>>) >>

\* mutation: the second restore receives the adjusted pointer again
PadAfterAdjusted(id) ==
    << Instr(id + 8, "call", "void", <<Inst(id + 6), Fn("llvm.stackrestore")>>) >>

\* the instruction put after call site c: it reinstalls the saved pointer
PadAfter(id) ==
    << Instr(id + 8, "call", "void", <<Inst(id + 3), Fn("llvm.stackrestore")>>) >>

PadInstrs == 9

\* mutation: the second restore is put in front of the block's terminator
PadCallLate(blocks, c, pad, ps, id) ==
    LET b    == BlockOf(blocks, c)
        next == blocks[b][Len(blocks[b])].id
        B1   == InsertBefore(blocks, c, PadBefore(pad, ps, id))
    IN  InsertBefore(B1, next, PadAfter(id))

\* one round of the loop over the collected call sites
PadCall(blocks, c, pad, ps, id) ==
    LET b    == BlockOf(blocks, c)
        next == blocks[b][IndexOf(blocks[b], c) + 1].id   \* c->getNextNode()
        B1   == InsertBefore(blocks, c, PadBefore(pad, ps, id))
    IN  InsertBefore(B1, next, PadAfter(id))

RECURSIVE PadCalls(_, _, _, _, _)
PadCalls(blocks, calls, pad, ps, id) ==
    IF calls = <<>> THEN blocks
    ELSE Bind(PadCall(blocks, Head(calls), pad, ps, id),
              LAMBDA B1 : PadCalls(B1, Tail(calls), pad, ps, id + PadInstrs))

randomizeStack(blocks, pad, ps, id) ==
    PadCalls(blocks, CallSites(blocks), pad, ps, id)

\* operator(): one round of the loop `for(Function* f : local_functions)`
\* under if(stabilize_stack)
StackStep ==
    /\ pc = "stack"
    /\ stabilize_stack
    /\ idx <= Len(local_functions)
    /\ LET f   == local_functions[idx]
           fn  == FnOf(funcs, f)
           pad == GlobalVariable(fn.name \o ".stack_pad", "i8", FALSE,
                                 "internal", CInt(8, 0))
           F1  == getDeclaration(getDeclaration(funcs, "llvm.stacksave", "ptr()"),
                                 "llvm.stackrestore", "void(ptr)")
       IN  /\ globals' = Append(globals, pad)
           /\ stackPads' = stackPads @@ (f :> pad.h)
           /\ funcs' = [F1 EXCEPT ![FnAt(F1, f)].blocks =
                           randomizeStack(@, pad.h, ptrSize, nextId)]
           /\ nextId' = nextId + PadInstrs * Len(CallSites(fn.blocks))
    /\ idx' = idx + 1
    /\ UNCHANGED <<toDelete, warnings, sp, padByte, regs, poison>>
    /\ UNCHANGED <<arch, ptrSize, stabilize_heap, stabilize_stack, stabilize_code,
                   pc, local_functions, old_ctors, LastUnique, input, hist>>

StackDone ==
    /\ pc = "stack"
    /\ ~stabilize_stack \/ idx > Len(local_functions)
    /\ pc' = "ctor"
    /\ UNCHANGED <<toDelete, warnings, sp, padByte, regs, poison>>
    /\ UNCHANGED <<funcs, globals, arch, ptrSize, stabilize_heap, stabilize_stack,
                   stabilize_code, local_functions, stackPads, old_ctors, idx,
                   nextId, LastUnique, input, hist>>

(***************************************************************************)
(* getConstructors and makeConstructor                                     *)
(***************************************************************************)
hasLocalLinkage(g) == g.linkage \in {"internal", "private"}

\* Module::getGlobalVariable(name, AllowInternal = false)
hasGlobalVariable(G, name) ==
    \E i \in DOMAIN G : G[i].name = name /\ ~hasLocalLinkage(G[i])
GlobalAt(G, name) ==
    CHOOSE i \in DOMAIN G : G[i].name = name /\ ~hasLocalLinkage(G[i])

\* mutation: only the entries at the default priority are read
getDefaultConstructors(G) ==
    IF hasGlobalVariable(G, "llvm.global_ctors")
    THEN LET initializer == G[GlobalAt(G, "llvm.global_ctors")].init
         IN  IF initializer.k = "agg"
             THEN LET kept == SelectSeq(initializer.ops,
                                        LAMBDA e : e.ops[1] = CInt(32, CtorPriority))
                  IN  [i \in DOMAIN kept |-> kept[i].ops[2]]
             ELSE <<>>
    ELSE <<>>

\* the function-pointer field of each entry, in table order
getConstructors(G) ==
    IF hasGlobalVariable(G, "llvm.global_ctors")
    THEN LET initializer == G[GlobalAt(G, "llvm.global_ctors")].init
         IN  IF initializer.k = "agg"            \* isa<ConstantArray>
             THEN [i \in DOMAIN initializer.ops |-> initializer.ops[i].ops[2]]
             ELSE <<>>                           \* an empty ctor table
    ELSE <<>>

\* mutation: the table that gave its name away stays in the module
keepGlobal(G, i) == G

\* GlobalValue::eraseFromParent
eraseGlobal(G, i) == SubSeq(G, 1, i - 1) \o SubSeq(G, i + 1, Len(G))

\* the new table holds one entry { i32 65535, ptr init, ptr null }; it takes
\* the name of the current table, which is then erased
makeConstructorTable(G, init) ==
    LET ctor_entries == << Agg(<<CInt(32, CtorPriority), Fn(init), Null>>) >>
        new_ctors == [GlobalVariable("new_ctors", "array", TRUE, "appending",
                                     Agg(ctor_entries)) EXCEPT !.name = ""]
        G1 == Append(G, new_ctors)
    IN  IF hasGlobalVariable(G, "llvm.global_ctors")
        THEN LET c  == GlobalAt(G, "llvm.global_ctors")
                 G2 == [G1 EXCEPT ![Len(G1)].name = G1[c].name,      \* takeName
                                  ![c].name = "old.llvm.global_ctors",
                                  ![c].linkage = "private"]
             IN  eraseGlobal(G2, c)
        ELSE [G1 EXCEPT ![Len(G1)].name = "llvm.global_ctors"]

\* operator(): getConstructors, makeConstructor, and the constructor's block
MakeConstructor ==
    /\ pc = "ctor"
    /\ old_ctors' = getConstructors(globals)
    /\ funcs' = Append(funcs, Function("stabilizer.module_ctor", "void()",
                                       "internal", << <<>> >>))
    /\ globals' = makeConstructorTable(globals, "stabilizer.module_ctor")
    /\ pc' = "code"
    /\ idx' = 1
    /\ UNCHANGED <<toDelete, warnings, sp, padByte, regs, poison>>
    /\ UNCHANGED <<arch, ptrSize, stabilize_heap, stabilize_stack, stabilize_code,
                   local_functions, stackPads, nextId, LastUnique, input, hist>>


(***************************************************************************)
(* extractFloatOperations (Step C) and getFloatConversion                  *)
(***************************************************************************)
RECURSIVE containsConstantFloat(_)
containsConstantFloat(c) ==
    IF c.k = "fp" THEN TRUE
    ELSE IF c.k = "expr"
         THEN \E i \in DOMAIN c.ops : containsConstantFloat(c.ops[i])
         ELSE FALSE

\* Value::getType of an operand inside a body
ValueType(blocks, v) ==
    IF v.k = "inst" THEN InstrOf(blocks, v.id).ty
    ELSE IF v.k = "arg" THEN v.ty
    ELSE TypeOf(v)

isFloatConversion(i, a) ==
    \/ i.op \in {"fptosi", "fptoui", "sitofp", "uitofp"}
    \/ (i.op = "fptrunc" /\ getPlatform(a) = "PowerPC")

\* the name encodes opcode, input type and output type
ConverterName(opcode, in, out) == opcode \o "." \o in \o "." \o out

\* mutation: a converter is created at every request
createFloatConversion(F, opcode, in, out) ==
    Append(F, Function(opcode \o "." \o in \o "." \o out,
                       out \o "(" \o in \o ")", "internal",
                       << << Instr(1, opcode, out, <<Arg(in)>>),
                             Instr(2, "ret", "void", <<Inst(1)>>) >> >>))

\* the function list after getFloatConversion: the converter is created at
\* the end of the list unless a function of that name is already there
getFloatConversion(F, opcode, in, out) ==
    IF hasFunction(F, ConverterName(opcode, in, out)) THEN F
    ELSE Append(F, Function(ConverterName(opcode, in, out),
                            out \o "(" \o in \o ")", "internal",
                            << << Instr(1, opcode, out, <<Arg(in)>>),
                                  Instr(2, "ret", "void", <<Inst(1)>>) >> >>))

\* ValueSymbolTable: a colliding name gets "." and the next counter value
hasSymbol(S, name) ==
    \/ \E i \in DOMAIN S.globals : S.globals[i].name = name
    \/ hasFunction(S.funcs, name)
uniqueName(S, name) ==
    IF hasSymbol(S, name) THEN name \o "." \o ToString(S.LastUnique + 1) ELSE name
uniqueCount(S, name) ==
    IF hasSymbol(S, name) THEN S.LastUnique + 1 ELSE S.LastUnique

\* mutation: the user is the insertion point, a PHI node included
getUser(blocks, i, o) == i.id

\* where the load for operand o of instruction i goes: before i, or for a
\* PHI node before the terminator of the incoming block of that operand
getInsertionPoint(blocks, i, o) ==
    IF i.op = "phi" THEN getTerminator(blocks[i.inc[o]]).id ELSE i.id

\* the conversion branch: call the converter in front of i, move i's uses
\* to the call, remember i for deletion
ExtractConversion(S, id) ==
    LET i  == InstrOf(S.blocks, id)
        in == ValueType(S.blocks, i.ops[1])
        F1 == getFloatConversion(S.funcs, i.op, in, i.ty)
        f  == getFunction(F1, ConverterName(i.op, in, i.ty))
        ci == Instr(S.nextId, "call", i.ty, <<i.ops[1], Fn(f.h)>>)
        B1 == InsertBefore(S.blocks, id, <<ci>>)
    IN  [S EXCEPT !.blocks = SubstBlocks(B1, Inst(id), Inst(ci.id)),
                  !.funcs = F1,
                  !.nextId = @ + 1,
                  !.to_delete = Append(@, id)]

\* the operand branch, for operand o of instruction id
ExtractOperand(S, id, o) ==
    LET i  == InstrOf(S.blocks, id)
        c  == i.ops[o]
    IN  IF isConstant(c) /\ containsConstantFloat(c)
        THEN LET g  == GlobalVariable(uniqueName(S, "fconst"), TypeOf(c), TRUE,
                                      "internal", c)
                 insertion_point == getInsertionPoint(S.blocks, i, o)
                 load == Named(S.nextId, "load", TypeOf(c), <<GV(g.h)>>, "fconst.load")
                 B1 == InsertBefore(S.blocks, insertion_point, <<load>>)
             IN  [S EXCEPT !.blocks = SetOperand(B1, id, o, Inst(load.id)),
                           !.globals = Append(@, g),
                           !.LastUnique = uniqueCount(S, "fconst"),
                           !.nextId = @ + 1]
        ELSE S

RECURSIVE ExtractOperands(_, _, _)
ExtractOperands(S, id, o) ==
    IF o > Len(InstrOf(S.blocks, id).ops) THEN S
    ELSE Bind(ExtractOperand(S, id, o), LAMBDA S1 : ExtractOperands(S1, id, o + 1))

\* the body of the loop over the instructions of f
ExtractInstr(S, id, a) ==
    IF isFloatConversion(InstrOf(S.blocks, id), a)
    THEN ExtractConversion(S, id)
    ELSE ExtractOperands(S, id, 1)

\* the loop itself, over ids[lo..hi] in order; the range is halved rather
\* than peeled so that long bodies do not nest the evaluation deeply
RECURSIVE ExtractLoop(_, _, _, _, _)
ExtractLoop(S, ids, lo, hi, a) ==
    IF lo > hi THEN S
    ELSE IF lo = hi THEN ExtractInstr(S, ids[lo], a)
    ELSE LET mid == (lo + hi) \div 2
         IN  Bind(ExtractLoop(S, ids, lo, mid, a),
                  LAMBDA S1 : ExtractLoop(S1, ids, mid + 1, hi, a))

RECURSIVE EraseAll(_, _)
EraseAll(blocks, ids) ==
    IF ids = <<>> THEN blocks
    ELSE Bind(EraseInstr(blocks, Head(ids)), LAMBDA B1 : EraseAll(B1, Tail(ids)))

\* S carries the body of f and the parts of the module the step can change.
\* A load put in front of a later terminator is reached by the loop as well;
\* its only operand is the new global, so visiting it changes nothing.
extractFloatOperations(S, a) ==
    LET all == Flatten(S.blocks)
        S1  == ExtractLoop([S EXCEPT !.to_delete = <<>>],
                           [k \in DOMAIN all |-> all[k].id], 1, Len(all), a)
    IN  [S1 EXCEPT !.blocks = EraseAll(S1.blocks, S1.to_delete)]


(***************************************************************************)
(* containsGlobal and findPCRelativeUsesIn (Step D)                        *)
(***************************************************************************)
\* mutation: functions do not count as globals
RECURSIVE containsGlobalVariable(_, _)
containsGlobalVariable(F, v) ==
    IF v.k = "gv" THEN TRUE
    ELSE IF v.k = "expr"
         THEN \E i \in DOMAIN v.ops : containsGlobalVariable(F, v.ops[i])
         ELSE FALSE

RECURSIVE containsGlobal(_, _)
containsGlobal(F, v) ==
    IF v.k = "fn"
    THEN LET f == FnOf(F, v.h)
         IN  IF isIntrinsic(f) \/ f.name = "__gxx_personality_v0" THEN FALSE ELSE TRUE
    ELSE IF v.k = "gv" THEN TRUE
    ELSE IF v.k = "expr"
         THEN \E i \in DOMAIN v.ops : containsGlobal(F, v.ops[i])
         ELSE FALSE

\* A use is <<instruction, operand number>>.  For a PHI the operands are the
\* incoming values; every other instruction offers all its operands.
PCRelativeUsesOf(F, i) ==
    IF i.op = "phi"
    THEN {<<i.id, index>> : index \in
             {x \in 1..Len(i.ops) : isConstant(i.ops[x]) /\ containsGlobal(F, i.ops[x])}}
    ELSE {<<i.id, o>> : o \in
             {x \in DOMAIN i.ops : isConstant(i.ops[x]) /\ containsGlobal(F, i.ops[x])}}

UseValue(blocks, u) == InstrOf(blocks, u[1]).ops[u[2]]

\* map<Constant*, set<Use*> >
findPCRelativeUsesIn(F, blocks) ==
    LET uses == UNION {PCRelativeUsesOf(F, i) : i \in Range(Flatten(blocks))}
    IN  [c \in {UseValue(blocks, u) : u \in uses} |->
            {u \in uses : UseValue(blocks, u) = c}]

(***************************************************************************)
(* randomizeCode                                                           *)
(***************************************************************************)
\* ConstantExpr::getPointerCast
getPointerCast(v, ty) == Expr(ty, <<v>>)

\* Value::getName of a constant
getName(F, c) == IF c.k = "fn" THEN FnOf(F, c.h).name
                 ELSE IF c.k = "gv" THEN c.h
                 ELSE ""

\* DataLayout: store size and alignment of the field types that occur
SizeOfType(ty, ps) ==
    CASE ty = "i8" -> 1 [] ty = "i32" -> 4 [] ty \in {"i64", "double"} -> 8
      [] OTHER -> ps
AlignUp(n, a) == ((n + a - 1) \div a) * a
RECURSIVE StructOffset(_, _, _)
StructOffset(types, ps, off) ==
    IF types = <<>> THEN off
    ELSE LET sz == SizeOfType(Head(types), ps)
         IN  StructOffset(Tail(types), ps, AlignUp(off, sz) + sz)
MaxAlign(types, ps) ==
    IF types = <<>> THEN 1
    ELSE CHOOSE a \in {SizeOfType(types[i], ps) : i \in DOMAIN types} :
             \A j \in DOMAIN types : SizeOfType(types[j], ps) <= a
\* ConstantExpr::getSizeOf of a non-packed struct
getSizeOf(types, ps) == AlignUp(StructOffset(types, ps, 0), MaxAlign(types, ps))

\* Step A: the sentinel
Sentinel(name) ==
    [Function("stabilizer.dummy." \o name, "void()", "internal",
              << << Instr(1, "ret", "void", <<>>) >> >>) EXCEPT !.align = ALIGN]

\* mutation: the sentinel is left where Function::Create with a module puts
\* it, at the end of the function list
insertAtEnd(F, h, next) == Append(F, next)

\* m.getFunctionList().insertAfter(f.getIterator(), next)
insertAfter(F, h, next) == InsertAt(F, FnAt(F, h) + 1, <<next>>)

\* Step B: stack protection attributes and linkonce_odr linkage
removeFnAttr(f, attr) == [f EXCEPT !.attrs = @ \ {attr}]
Normalize(f) ==
    LET f1 == removeFnAttr(removeFnAttr(f, "ssp"), "sspreq")
    IN  IF f1.linkage = "linkonce_odr" THEN [f1 EXCEPT !.linkage = "external"] ELSE f1

\* mutation: the slot after the one the constant was stored in
getNextElementPtr(tableTy, table, index) ==
    [k |-> "expr", ty |-> "ptr", src |-> tableTy,
     ops |-> <<table, CInt(32, 0), CInt(32, index + 1)>>]

\* ConstantExpr::getGetElementPtr(relocationTableType, table, {0, index})
getGetElementPtr(tableTy, table, index) ==
    [k |-> "expr", ty |-> "ptr", src |-> tableTy,
     ops |-> <<table, CInt(32, 0), CInt(32, index)>>]

\* Step G for one use u of the constant in slot index
RewriteUse(S, F, c, u, index, tableTy, actualRelocationTable) ==
    LET i == InstrOf(S.blocks, u[1])
        insertion_point == getInsertionPoint(S.blocks, i, u[2])
        slot == getGetElementPtr(tableTy, actualRelocationTable, index)
        loaded == Named(S.nextId, "load", TypeOf(slot), <<slot>>,
                        getName(F, c) \o ".indirect")
        B1 == InsertBefore(S.blocks, insertion_point, <<loaded>>)
    IN  [S EXCEPT !.blocks = SetOperand(B1, u[1], u[2], Inst(loaded.id)),
                  !.nextId = @ + 1]

RECURSIVE RewriteUses(_, _, _, _, _, _, _)
RewriteUses(S, F, c, uses, index, tableTy, table) ==
    IF uses = <<>> THEN S
    ELSE Bind(RewriteUse(S, F, c, Head(uses), index, tableTy, table),
              LAMBDA S1 : RewriteUses(S1, F, c, Tail(uses), index, tableTy, table))

\* the loop `for(Constant* c : referencedValues)`; useOrder[c] is the order
\* in which the set<Use*> of c is walked
RECURSIVE RewriteAll(_, _, _, _, _, _, _)
RewriteAll(S, F, referencedValues, useOrder, index, tableTy, table) ==
    IF referencedValues = <<>> THEN S
    ELSE LET c == Head(referencedValues)
         IN  Bind(RewriteUses(S, F, c, useOrder[c], index, tableTy, table),
                  LAMBDA S1 : RewriteAll(S1, F, Tail(referencedValues), useOrder,
                                         index + 1, tableTy, table))

\* Steps A to D on function h: the module with the sentinel in place, h
\* normalized and its float operations extracted, and the collected uses
CodeCollect(F, G, h, a, id, lu) ==
    LET f   == FnOf(F, h)
        F1  == insertAfter(F, h, Sentinel(f.name))
        F2  == [F1 EXCEPT ![FnAt(F1, h)] = Normalize(@)]
        S   == extractFloatOperations(
                   [blocks |-> f.blocks, funcs |-> F2, globals |-> G,
                    nextId |-> id, LastUnique |-> lu, to_delete |-> <<>>], a)
        F3  == [S.funcs EXCEPT ![FnAt(S.funcs, h)].blocks = S.blocks]
    IN  [blocks |-> S.blocks, funcs |-> F3, globals |-> S.globals,
         nextId |-> S.nextId, LastUnique |-> S.LastUnique,
         next |-> Sentinel(f.name).h,
         references |-> findPCRelativeUsesIn(F3, S.blocks)]


\* Steps E to H, given the order in which the map yields the constants and
\* each set yields its uses.  The result carries the registration tuple.
CodeRewrite(C, h, a, ps, referencedValues, useOrder) ==
    LET f == FnOf(C.funcs, h)
        fBase  == getPointerCast(Fn(h), "i8*")
        fLimit == getPointerCast(Fn(C.next), "i8*")
    IN  IF Cardinality(DOMAIN C.references) > 0
        THEN LET referencedTypes == [i \in DOMAIN referencedValues |->
                                        TypeOf(referencedValues[i])]
                 relocationTableType == f.name \o ".relocation_table_t"
                 relocationTable ==
                     GlobalVariable(f.name \o ".relocation_table",
                                    relocationTableType, FALSE, "internal",
                                    Agg(referencedValues))
                 actualRelocationTable ==
                     IF isDataPCRelative(a)
                     THEN getPointerCast(Fn(C.next), relocationTableType \o "*")
                     ELSE GV(relocationTable.h)
                 S == RewriteAll([blocks |-> C.blocks, nextId |-> C.nextId],
                                 C.funcs, referencedValues, useOrder, 0,
                                 relocationTableType, actualRelocationTable)
             IN  [funcs   |-> [C.funcs EXCEPT ![FnAt(C.funcs, h)].blocks = S.blocks],
                  globals |-> Append(C.globals, relocationTable),
                  nextId  |-> S.nextId,
                  LastUnique |-> C.LastUnique,
                  args |-> << fBase, fLimit,
                              getPointerCast(GV(relocationTable.h), "i8*"),
                              CInt(32, getSizeOf(referencedTypes, ps)),
                              CInt(1, IF isDataPCRelative(a) THEN 1 ELSE 0) >>]
        ELSE [funcs   |-> C.funcs,
              globals |-> C.globals,
              nextId  |-> C.nextId,
              LastUnique |-> C.LastUnique,
              args |-> << fBase, fLimit, Null, CInt(32, 0), CInt(1, 0) >>]

\* A set<Use*> is walked in the order of the addresses of the Use objects.
\* The model walks every set either by ascending or by descending
\* <<instruction, operand>>, which yields both orders of any two uses.
UseBefore(u, v) == u[1] < v[1] \/ (u[1] = v[1] /\ u[2] <= v[2])
RECURSIVE SortUses(_)
SortUses(U) ==
    IF U = {} THEN <<>>
    ELSE LET m == CHOOSE u \in U : \A v \in U : UseBefore(u, v)
         IN  <<m>> \o SortUses(U \ {m})
UseOrders(references) ==
    { [c \in DOMAIN references |-> SortUses(references[c])],
      [c \in DOMAIN references |-> Reverse(SortUses(references[c]))] }

\* mutation: the call is put at the front of the block
CtorPrepend(F, instr) ==
    [F EXCEPT ![FnAt(F, "stabilizer.module_ctor")].blocks[1] = <<instr>> \o @]

\* BasicBlock of the constructor: CallInst::Create(..., ctor_bb) appends
CtorAppend(F, instr) ==
    [F EXCEPT ![FnAt(F, "stabilizer.module_ctor")].blocks[1] = Append(@, instr)]
CtorBody(F) == FnOf(F, "stabilizer.module_ctor").blocks[1]

NoPad == ""    \* the NULL that stackPads[f] yields for a missing key

\* operator(): one round of the loop `for(Function* f : local_functions)`
\* under if(stabilize_code)
CodeStep ==
    /\ pc = "code"
    /\ stabilize_code
    /\ idx <= Len(local_functions)
    /\ LET f == local_functions[idx] IN
       \E C \in {CodeCollect(funcs, globals, f, arch, nextId, LastUnique)} :
       \E R \in {CodeRewrite(C, f, arch, ptrSize, referencedValues, useOrder) :
                    referencedValues \in PermSeqs(DOMAIN C.references),
                    useOrder \in UseOrders(C.references)} :
          LET pads == IF f \in DOMAIN stackPads THEN stackPads
                      ELSE stackPads @@ (f :> NoPad)
              table == IF pads[f] = NoPad THEN Null ELSE GV(pads[f])
              call == Instr(R.nextId, "call", "void",
                            R.args \o <<table>>
                            \o <<Fn("stabilizer_register_function")>>)
          IN  /\ funcs' = CtorAppend(R.funcs, call)
              /\ globals' = R.globals
              /\ nextId' = R.nextId + 1
              /\ LastUnique' = R.LastUnique
              /\ stackPads' = pads
              /\ hist' = hist @@ (f :> [collected |-> C.blocks,
                                        references |-> C.references])
    /\ idx' = idx + 1
    /\ UNCHANGED <<toDelete, warnings, sp, padByte, regs, poison>>
    /\ UNCHANGED <<arch, ptrSize, stabilize_heap, stabilize_stack, stabilize_code,
                   pc, local_functions, old_ctors, input>>

CodeDone ==
    /\ pc = "code"
    /\ ~stabilize_code \/ idx > Len(local_functions)
    /\ pc' = "register"
    /\ idx' = 1
    /\ UNCHANGED <<toDelete, warnings, sp, padByte, regs, poison>>
    /\ UNCHANGED <<funcs, globals, arch, ptrSize, stabilize_heap, stabilize_stack,
                   stabilize_code, local_functions, stackPads, old_ctors,
                   nextId, LastUnique, input, hist>>

(***************************************************************************)
(* The rest of the constructor body and the renaming of main               *)
(***************************************************************************)
\* one round of the loop `for(Value* ctor_iter : old_ctors)`
RegisterConstructor ==
    /\ pc = "register"
    /\ idx <= Len(old_ctors)
    /\ funcs' = CtorAppend(funcs,
                    Instr(nextId, "call", "void",
                          <<old_ctors[idx], Fn("stabilizer_register_constructor")>>))
    /\ nextId' = nextId + 1
    /\ idx' = idx + 1
    /\ UNCHANGED <<toDelete, warnings, sp, padByte, regs, poison>>
    /\ UNCHANGED <<globals, arch, ptrSize, stabilize_heap, stabilize_stack,
                   stabilize_code, pc, local_functions, stackPads, old_ctors,
                   LastUnique, input, hist>>

RegisterDone ==
    /\ pc = "register"
    /\ idx > Len(old_ctors)
    /\ pc' = "pads"
    /\ UNCHANGED <<toDelete, warnings, sp, padByte, regs, poison>>
    /\ UNCHANGED <<funcs, globals, arch, ptrSize, stabilize_heap, stabilize_stack,
                   stabilize_code, local_functions, stackPads, old_ctors, idx,
                   nextId, LastUnique, input, hist>>

\* mutation: the pads are not registered by themselves
NoPadCalls(order, pads, id) == <<>>

\* the calls `for(auto [func, pad] : stackPads)` appends; the map is walked
\* in the order of its keys, which is the order of local_functions
RECURSIVE PadCallsFor(_, _, _)
PadCallsFor(order, pads, id) ==
    IF order = <<>> THEN <<>>
    ELSE IF Head(order) \in DOMAIN pads
         THEN << Instr(id, "call", "void",
                       <<GV(pads[Head(order)]), Fn("stabilizer_register_stack_pad")>>) >>
              \o PadCallsFor(Tail(order), pads, id + 1)
         ELSE PadCallsFor(Tail(order), pads, id)

\* if(stabilize_stack && !stabilize_code) register the pads; then the return
RegisterPadsAndReturn ==
    /\ pc = "pads"
    /\ LET calls == IF stabilize_stack /\ ~stabilize_code
                    THEN PadCallsFor(local_functions, stackPads, nextId)
                    ELSE <<>>
           ret == Instr(nextId + Len(calls), "ret", "void", <<>>)
       IN  /\ funcs' = [funcs EXCEPT ![FnAt(funcs, "stabilizer.module_ctor")].blocks[1]
                            = @ \o calls \o <<ret>>]
           /\ nextId' = nextId + Len(calls) + 1
    /\ pc' = "main"
    /\ UNCHANGED <<toDelete, warnings, sp, padByte, regs, poison>>
    /\ UNCHANGED <<globals, arch, ptrSize, stabilize_heap, stabilize_stack,
                   stabilize_code, local_functions, stackPads, old_ctors, idx,
                   LastUnique, input, hist>>

\* mutation: the rename is lost
keepName(F, h, name) == F

\* Value::setName
setName(F, h, name) == [F EXCEPT ![FnAt(F, h)].name = name]

\* Function *main = m.getFunction("main"); if(main) main->setName(...)
RenameMain ==
    /\ pc = "main"
    /\ funcs' = IF hasFunction(funcs, "main")
                THEN setName(funcs, getFunction(funcs, "main").h, "stabilizer_main")
                ELSE funcs
    /\ pc' = "done"
    /\ UNCHANGED <<toDelete, warnings, sp, padByte, regs, poison>>
    /\ UNCHANGED <<globals, arch, ptrSize, stabilize_heap, stabilize_stack,
                   stabilize_code, local_functions, stackPads, old_ctors, idx,
                   nextId, LastUnique, input, hist>>

Next ==
    \/ Heap
    \/ Snapshot
    \/ DeclareRuntime
    \/ StackStep
    \/ StackDone
    \/ MakeConstructor
    \/ CodeStep
    \/ CodeDone
    \/ RegisterConstructor
    \/ RegisterDone
    \/ RegisterPadsAndReturn
    \/ RenameMain

Spec == Init /\ [][Next]_vars

Done == pc = "done"

(***************************************************************************)
(* Intrinsic Lowering: lowerInstrinsicsPass / runOnModule                  *)
(***************************************************************************)
MaxUses == 2

\* IntrinsicLibcalls.h is not part of the sources at hand; the table is
\* modelled after the specification: a static map from intrinsic names to
\* libcall names (the empty name: no mapping) and an "always inline" list
GetLibcall(name) ==
    CASE name = "llvm.memcpy.p0.p0.i64" -> "memcpy"
      [] name = "llvm.memcpy.p0.p0.i32" -> "memcpy"
      [] name = "llvm.sqrt.f64"         -> "sqrt"
      [] OTHER                          -> ""
isAlwaysInlined(name) == name = "llvm.dbg.value"

LibcallNames == {"memcpy", "sqrt"}

\* the intrinsics an input of the lowering pass may declare, with their types
LowerIntrinsics ==
    << <<"llvm.memcpy.p0.p0.i64", "void(ptr,ptr,i64,i1)">>,
       <<"llvm.memcpy.p0.p0.i32", "void(ptr,ptr,i32,i1)">>,
       <<"llvm.sqrt.f64", "double(double)">>,
       <<"llvm.unknown", "void()">>,
       <<"llvm.dbg.value", "void(metadata)">> >>

\* n calls of the function h, with instruction identities above base
CallsOf(h, n, base) ==
    [k \in 1..n |-> Instr(base + k, "call", "void", <<Arg("ptr"), Fn(h)>>)]

\* the body of the one defined function of an input: uses[i] calls of the
\* i-th intrinsic (none when it is not declared), then the uses the module
\* already has of memcpy, one as a callee and one as a stored address
RECURSIVE UserCalls(_, _)
UserCalls(uses, i) ==
    IF i > Len(LowerIntrinsics) THEN <<>>
    ELSE CallsOf(LowerIntrinsics[i][1], IF uses[i] < 0 THEN 0 ELSE uses[i], 10 * i)
         \o UserCalls(uses, i + 1)

UserBody(uses, pre) ==
    << UserCalls(uses, 1)
       \o (IF pre \in {"used", "local"}
           THEN << Instr(91, "call", "ptr", <<Arg("ptr"), Fn("memcpy")>>),
                   Instr(92, "store", "void", <<Fn("memcpy"), Arg("ptr")>>) >>
           ELSE <<>>)
       \o << Instr(99, "ret", "void", <<>>) >> >>

\* a function named memcpy the module may already have: none, an external
\* declaration (unused or used), or a definition with local linkage
ExistingLibcall(pre) ==
    CASE pre = "absent" -> <<>>
      [] pre = "local"  -> << Function("memcpy", "ptr(ptr,ptr,i64)", "internal",
                                       << << Instr(1, "ret", "ptr", <<Arg("ptr")>>) >> >>) >>
      [] OTHER          -> << Declaration("memcpy", "ptr(ptr,ptr,i64)") >>

\* uses[i] = -1: the i-th intrinsic is not declared
DeclaredIntrinsics(uses) ==
    LET present == SelectSeq([i \in DOMAIN LowerIntrinsics |-> i], LAMBDA i : uses[i] >= 0)
    IN  [k \in DOMAIN present |->
            Declaration(LowerIntrinsics[present[k]][1], LowerIntrinsics[present[k]][2])]

LowerInputs ==
    {[uses |-> u, pre |-> p, rev |-> r] :
        u \in {v \in [DOMAIN LowerIntrinsics -> -1..MaxUses] : v[4] \in {-1, 1} /\ v[5] \in {-1, 1}},
        p \in {"absent", "unused", "used", "local"},
        r \in BOOLEAN}

LowerModule(in) ==
    LET decls == DeclaredIntrinsics(in.uses)
        user  == Function("user", "void(ptr)", "external", UserBody(in.uses, in.pre))
    IN  IF in.rev
        THEN ExistingLibcall(in.pre) \o <<user>> \o Reverse(decls)
        ELSE decls \o <<user>> \o ExistingLibcall(in.pre)

InitLower ==
    \E in \in LowerInputs :
        /\ funcs = LowerModule(in)
        /\ globals = <<>>
        /\ arch = "x86_64"
        /\ ptrSize = 8
        /\ stabilize_heap = FALSE
        /\ stabilize_stack = FALSE
        /\ stabilize_code = FALSE
        /\ pc = "scan"
        /\ local_functions = <<>>
        /\ stackPads = <<>>
        /\ old_ctors = <<>>
        /\ idx = 1
        /\ nextId = FirstFreshId
        /\ LastUnique = 0
        /\ input = [funcs |-> funcs, globals |-> globals]
        /\ hist = <<>>
        /\ toDelete = {}
        /\ warnings = <<>>
        /\ sp = <<>>
        /\ padByte = 0
        /\ regs = <<>>
        /\ poison = FALSE

\* mutation: a declaration is created for every lowered intrinsic
createExtern(F, r, ty) == Append(F, Function(r, ty, "external", <<>>))

\* m.getFunction(r), or Function::Create(f.getFunctionType(), ExternalLinkage, r, &m)
getOrCreateExtern(F, r, ty) ==
    IF hasFunction(F, r) THEN F ELSE Append(F, Function(r, ty, "external", <<>>))

\* the uses of a function: the operand slots that hold it
UseCount(F, h) ==
    Cardinality(UNION {UNION {UNION {
        {<<i, b, k, o>> : o \in {o \in DOMAIN F[i].blocks[b][k].ops :
                                    F[i].blocks[b][k].ops[o] = Fn(h)}} :
            k \in DOMAIN F[i].blocks[b]} :
            b \in DOMAIN F[i].blocks} :
            i \in DOMAIN F})

\* one round of the loop over the functions of the module
ScanStep ==
    /\ pc = "scan"
    /\ UNCHANGED <<sp, padByte, regs, poison>>
    /\ idx <= Len(funcs)
    /\ LET f == funcs[idx] IN
       IF isIntrinsic(f) /\ ~isAlwaysInlined(f.name)
       THEN LET r == GetLibcall(f.name) IN
            IF r # ""
            THEN LET F1       == getOrCreateExtern(funcs, r, f.ty)
                     f_extern == getFunction(F1, r)
                 IN  /\ funcs' = replaceAllUsesWith(F1, Fn(f.h), Fn(f_extern.h))
                     /\ toDelete' = toDelete \cup {f.h}
                     /\ UNCHANGED warnings
            ELSE /\ warnings' = Append(warnings, "warning: unable to handle intrinsic " \o f.name)
                 /\ UNCHANGED <<funcs, toDelete>>
       ELSE UNCHANGED <<funcs, toDelete, warnings>>
    /\ idx' = idx + 1
    /\ UNCHANGED <<globals, arch, ptrSize, stabilize_heap, stabilize_stack,
                   stabilize_code, pc, local_functions, stackPads, old_ctors,
                   nextId, LastUnique, input, hist>>

ScanDone ==
    /\ pc = "scan"
    /\ UNCHANGED <<sp, padByte, regs, poison>>
    /\ idx > Len(funcs)
    /\ pc' = "delete"
    /\ UNCHANGED <<funcs, globals, arch, ptrSize, stabilize_heap, stabilize_stack,
                   stabilize_code, local_functions, stackPads, old_ctors, idx,
                   nextId, LastUnique, input, hist, toDelete, warnings>>

\* one round of the loop over toDelete; a set<Function*> is walked in the
\* order of the addresses, which is any order
DeleteStep ==
    /\ pc = "delete"
    /\ UNCHANGED <<sp, padByte, regs, poison>>
    /\ \E h \in toDelete :
        /\ hasHandle(funcs, h)
        /\ funcs' = SelectSeq(funcs, LAMBDA g : g.h # h)
    /\ UNCHANGED <<globals, arch, ptrSize, stabilize_heap, stabilize_stack,
                   stabilize_code, pc, local_functions, stackPads, old_ctors, idx,
                   nextId, LastUnique, input, hist, toDelete, warnings>>

DeleteDone ==
    /\ pc = "delete"
    /\ UNCHANGED <<sp, padByte, regs, poison>>
    /\ \A h \in toDelete : ~hasHandle(funcs, h)
    /\ pc' = "lowered"
    /\ UNCHANGED <<funcs, globals, arch, ptrSize, stabilize_heap, stabilize_stack,
                   stabilize_code, local_functions, stackPads, old_ctors, idx,
                   nextId, LastUnique, input, hist, toDelete, warnings>>

NextLower ==
    \/ ScanStep
    \/ ScanDone
    \/ DeleteStep
    \/ DeleteDone

SpecLower == InitLower /\ [][NextLower]_vars

\* the pass is straight-line code with two loops and nothing to wait for:
\* whenever it has a next step it takes it
SpecLowerFair == SpecLower /\ WF_vars(NextLower)

Lowered == pc = "lowered"

(***************************************************************************)
(* A padded call site at run time.  randomizeStack only emits instructions; *)
(* what they compute is decided when the function runs.  The instructions   *)
(* emitted around one call are executed here on a machine whose integers    *)
(* have the width of their type: a value is a little-endian sequence of     *)
(* 16-bit limbs (one narrower limb for i8), so that 32- and 64-bit          *)
(* arithmetic wraps where the hardware wraps.                               *)
(***************************************************************************)
LimbBase == 65536

LimbsOf(w) == IF w < 16 THEN 1 ELSE w \div 16
LimbMod(w) == IF w < 16 THEN 2 ^ w ELSE LimbBase

\* the w-bit constant n (n below 2^31)
Word(w, n) ==
    [k \in 1..LimbsOf(w) |->
        IF k = 1 THEN n % LimbMod(w)
        ELSE IF k = 2 THEN (n \div LimbBase) % LimbBase
        ELSE 0]

\* zext, trunc, and the no-op casts between a pointer and an integer
Resize(a, w) ==
    [k \in 1..LimbsOf(w) |-> IF k <= Len(a) THEN a[k] % LimbMod(w) ELSE 0]

RECURSIVE MulCarry(_, _, _, _)
MulCarry(a, n, m, k) ==
    IF k = 1 THEN 0 ELSE (a[k - 1] * n + MulCarry(a, n, m, k - 1)) \div m

\* mul nuw a, n at width w: the product, and whether it wrapped
MulNUW(a, n, w) ==
    [v    |-> [k \in 1..LimbsOf(w) |->
                 (a[k] * n + MulCarry(a, n, LimbMod(w), k)) % LimbMod(w)],
     wrap |-> MulCarry(a, n, LimbMod(w), LimbsOf(w) + 1) > 0]

RECURSIVE SubBorrow(_, _, _)
SubBorrow(a, b, k) ==
    IF k = 1 THEN 0
    ELSE IF a[k - 1] - b[k - 1] - SubBorrow(a, b, k - 1) < 0 THEN 1 ELSE 0

\* sub a, b at width w (wraps)
Sub(a, b, w) ==
    [k \in 1..LimbsOf(w) |->
        (a[k] - b[k] - SubBorrow(a, b, k) + LimbMod(w)) % LimbMod(w)]

TypeWidth(ty, ps) ==
    CASE ty = "i8"  -> 8
      [] ty = "i32" -> 32
      [] ty = "i64" -> 64
      [] OTHER      -> 8 * ps          \* ptr

\* the block of a function that makes one call, after randomizeStack
PaddedSite(ps) ==
    PadCall(<< << Instr(1, "call", "void", <<Fn("ext")>>),
                  Instr(2, "ret", "void", <<>>) >> >>,
            1, "F.stack_pad", ps, FirstFreshId)[1]

\* stack pointers the function may be entered with: aligned and not, near
\* the bottom of the address space (where the subtraction wraps) and the top
StackPointers(ps) ==
    {Word(8 * ps, n) : n \in {0, 8, 16, 4064, 4080, 4096, 65536, 1073741808}}
    \cup {[k \in 1..LimbsOf(8 * ps) |-> IF k = 1 THEN 65520 ELSE 65535]}

InitPad ==
    \E tg \in Targets :
        /\ arch = tg[1]
        /\ ptrSize = tg[2]
        /\ sp \in StackPointers(tg[2])
        /\ padByte \in 0..255
        /\ regs = <<>>
        /\ poison = FALSE
        /\ input = [sp |-> sp]
        /\ pc = "run"
        /\ idx = 1
        /\ funcs = <<>>
        /\ globals = <<>>
        /\ stabilize_heap = FALSE
        /\ stabilize_stack = TRUE
        /\ stabilize_code = FALSE
        /\ local_functions = {}
        /\ stackPads = <<>>
        /\ old_ctors = <<>>
        /\ nextId = FirstFreshId
        /\ LastUnique = <<>>
        /\ hist = <<>>
        /\ toDelete = {}
        /\ warnings = <<>>

\* the value of an operand: a constant, or the result of an instruction
ValueOf(o) == IF o.k = "int" THEN Word(o.w, o.v) ELSE regs[o.id]

\* one instruction of the padded call site is executed
ExecStep ==
    /\ pc = "run"
    /\ idx <= Len(PaddedSite(ptrSize))
    /\ LET i == PaddedSite(ptrSize)[idx]
           w == TypeWidth(i.ty, ptrSize)
       IN  /\ idx' = idx + 1
           /\ CASE i.op = "load" ->
                     \* the pad is a one-byte global written by the runtime
                     /\ regs' = regs @@ (i.id :> Word(8, padByte))
                     /\ UNCHANGED <<sp, poison>>
                [] i.op \in {"zext", "ptrtoint", "inttoptr"} ->
                     /\ regs' = regs @@ (i.id :> Resize(ValueOf(i.ops[1]), w))
                     /\ UNCHANGED <<sp, poison>>
                [] i.op = "mul_nuw" ->
                     LET r == MulNUW(Resize(ValueOf(i.ops[1]), i.ops[2].w),
                                     i.ops[2].v, i.ops[2].w)
                     IN  /\ regs' = regs @@ (i.id :> r.v)
                         /\ poison' = (poison \/ r.wrap)
                         /\ UNCHANGED sp
                [] i.op = "sub" ->
                     /\ regs' = regs @@ (i.id :> Sub(ValueOf(i.ops[1]),
                                                     ValueOf(i.ops[2]), w))
                     /\ UNCHANGED <<sp, poison>>
                [] i.op = "call" /\ i.ops[Len(i.ops)] = Fn("llvm.stacksave") ->
                     /\ regs' = regs @@ (i.id :> sp)
                     /\ UNCHANGED <<sp, poison>>
                [] i.op = "call" /\ i.ops[Len(i.ops)] = Fn("llvm.stackrestore") ->
                     /\ sp' = ValueOf(i.ops[1])
                     /\ UNCHANGED <<regs, poison>>
                [] OTHER ->
                     \* the call returns with the stack pointer it was given
                     UNCHANGED <<sp, regs, poison>>
    /\ pc' = IF idx = Len(PaddedSite(ptrSize)) THEN "returned" ELSE "run"
    /\ UNCHANGED <<funcs, globals, arch, ptrSize, stabilize_heap, stabilize_stack,
                   stabilize_code, local_functions, stackPads, old_ctors,
                   nextId, LastUnique, input, hist, toDelete, warnings, padByte>>

NextPad == ExecStep

SpecPad == InitPad /\ [][NextPad]_vars

(***************************************************************************)
(* Properties                                                              *)
(***************************************************************************)
\* the functions code randomization has transformed so far
Randomized == DOMAIN hist

\* the constant closure of an operand references a global value other than
\* an intrinsic or the personality routine; aggregates are looked into
RECURSIVE ReferencesGlobal(_, _)
ReferencesGlobal(F, v) ==
    CASE v.k = "fn" -> ~isIntrinsic(FnOf(F, v.h)) /\ FnOf(F, v.h).name # "__gxx_personality_v0"
      [] v.k = "gv" -> TRUE
      [] v.k \in {"expr", "agg"} -> \E o \in DOMAIN v.ops : ReferencesGlobal(F, v.ops[o])
      [] OTHER -> FALSE

\* a load that Step G put in: its address is a slot of the relocation table
isRelocationLoad(i) ==
    i.op = "load" /\ i.ops[1].k = "expr" /\ "src" \in DOMAIN i.ops[1]

\* C1: in every function that code randomization has transformed and whose
\* Step-D collection is not empty, no operand of an instruction (the loads
\* from the relocation table apart, whose address is the table itself) has
\* a constant closure that references a global value other than an
\* intrinsic or the personality routine, whatever the shape of the constant.
C1_NoDirectGlobalReferences ==
    \A f \in Randomized :
        DOMAIN hist[f].references # {} =>
            \A i \in AllInstrs(FnOf(funcs, f)) :
                ~isRelocationLoad(i) =>
                    \A o \in DOMAIN i.ops : ~ReferencesGlobal(funcs, i.ops[o])

\* C2: for every function F of the snapshot that code randomization has
\* processed (so also when the pass has finished), the entry that follows F
\* in the function list is stabilizer.dummy.F, F being the name the function
\* has in the input; it has internal linkage, alignment 64 and one basic
\* block whose only instruction is a void return.  This holds in whatever
\* order the snapshot is walked and whatever else the pass inserts.
C2_SentinelAdjacency ==
    \A f \in Randomized :
        LET i == FnAt(funcs, f) IN
        /\ i < Len(funcs)
        /\ funcs[i + 1].name = "stabilizer.dummy." \o f
        /\ funcs[i + 1].linkage = "internal"
        /\ funcs[i + 1].align = ALIGN
        /\ Len(funcs[i + 1].blocks) = 1
        /\ Len(funcs[i + 1].blocks[1]) = 1
        /\ funcs[i + 1].blocks[1][1].op = "ret"
        /\ funcs[i + 1].blocks[1][1].ty = "void"
        /\ funcs[i + 1].blocks[1][1].ops = <<>>

\* the pass has finished with stabilize-code on a module with two snapshot
\* functions, processed against the module order, and a converter function
\* and the constructor were inserted as well
C2_Witness ==
    /\ pc = "done"
    /\ stabilize_code
    /\ Len(local_functions) = 2
    /\ Randomized = Range(local_functions)
    /\ FnAt(funcs, local_functions[1]) > FnAt(funcs, local_functions[2])
    /\ hasFunction(funcs, "sitofp.i32.double")
    /\ hasFunction(funcs, "stabilizer.module_ctor")

\* the relocation table of function f, and the constants of its initializer
hasRelocationTable(f) ==
    \E i \in DOMAIN globals : globals[i].name = f \o ".relocation_table"
RelocationTable(f) ==
    globals[CHOOSE i \in DOMAIN globals : globals[i].name = f \o ".relocation_table"]
TableEntries(f) == RelocationTable(f).init.ops

\* what Step D collected in f: the constants, and where a constant is found
\* first when blocks, instructions and operands are scanned in program order
Collected(f) == DOMAIN hist[f].references
FirstUse(f, c) ==
    LET all == Flatten(hist[f].collected)
        at(u) == <<CHOOSE k \in DOMAIN all : all[k].id = u[1], u[2]>>
    IN  CHOOSE p \in {at(u) : u \in hist[f].references[c]} :
            \A q \in {at(u) : u \in hist[f].references[c]} : UseBefore(p, q)
RECURSIVE InDiscoveryOrder(_, _)
InDiscoveryOrder(f, C) ==
    IF C = {} THEN <<>>
    ELSE LET c == CHOOSE c \in C : \A d \in C : UseBefore(FirstUse(f, c), FirstUse(f, d))
         IN  <<c>> \o InDiscoveryOrder(f, C \ {c})

\* C3 as stated: the initializer of the relocation table of F lists the
\* constants rewritten in F in the order of their first discovery by the
\* program-order scan of Step D.
C3_TableInDiscoveryOrder ==
    \A f \in Randomized :
        Collected(f) # {} => TableEntries(f) = InDiscoveryOrder(f, Collected(f))

\* C3 amended: the initializer of the relocation table of F lists each
\* constant that Step D collected in F exactly once, in some order, and each
\* collected use now holds a load from the slot its constant is stored in.
C3_TableIsEnumeration ==
    \A f \in Randomized :
        Collected(f) # {} =>
            /\ hasRelocationTable(f)
            /\ Range(TableEntries(f)) = Collected(f)
            /\ \A p, q \in DOMAIN TableEntries(f) :
                   TableEntries(f)[p] = TableEntries(f)[q] => p = q
            /\ \A p \in DOMAIN TableEntries(f) :
               \A u \in hist[f].references[TableEntries(f)[p]] :
                   LET v == InstrOf(FnOf(funcs, f).blocks, u[1]).ops[u[2]]
                   IN  /\ v.k = "inst"
                       /\ isRelocationLoad(InstrOf(FnOf(funcs, f).blocks, v.id))
                       /\ InstrOf(FnOf(funcs, f).blocks, v.id).ops[1].ops[3] = CInt(32, p - 1)

\* a function with two collected constants whose table is not in discovery
\* order
C3_Witness ==
    \E f \in Randomized :
        /\ Cardinality(Collected(f)) >= 2
        /\ TableEntries(f) # InDiscoveryOrder(f, Collected(f))

\* the functions stack randomization has transformed so far
Padded == {f \in DOMAIN stackPads : stackPads[f] # NoPad}

\* the call sites that F had before stack randomization: the pass gives the
\* instructions it creates identities from FirstFreshId on
isOriginalCall(i) == isCallInst(i) /\ i.id < FirstFreshId
isCallTo(i, name) == isCallInst(i) /\ i.ops[Len(i.ops)] = Fn(name)

\* v is saved_sp minus the pad size: inttoptr(sub(ptrtoint(save),
\* mul(zext(load pad), 16))), the pad being read directly or, once code
\* randomization has rewritten the access, through the relocation table
isPadRead(B, f, v) ==
    /\ v.k = "inst"
    /\ \E ld \in {InstrOf(B, v.id)} :
        /\ ld.op = "load"
        /\ \/ ld.ops[1] = GV(stackPads[f])
           \/ /\ ld.ops[1].k = "inst"
              /\ \E slot \in {InstrOf(B, ld.ops[1].id)} :
                  /\ isRelocationLoad(slot)
                  /\ hasRelocationTable(f)
                  /\ TableEntries(f)[slot.ops[1].ops[3].v + 1] = GV(stackPads[f])
isAdjusted(B, f, ps, v, save) ==
    /\ v.k = "inst"
    /\ \E cast \in {InstrOf(B, v.id)} :
        /\ cast.op = "inttoptr"
        /\ cast.ops[1].k = "inst"
        /\ \E sub \in {InstrOf(B, cast.ops[1].id)} :
            /\ sub.op = "sub"
            /\ sub.ops[1].k = "inst"
            /\ \E ptr \in {InstrOf(B, sub.ops[1].id)} :
                /\ ptr.op = "ptrtoint"
                /\ ptr.ops = <<Inst(save)>>
            /\ sub.ops[2].k = "inst"
            /\ \E mul \in {InstrOf(B, sub.ops[2].id)} :
                /\ mul.op = "mul_nuw"
                /\ mul.ops[2] = getIntptr(ps, StackAlignment)
                /\ mul.ops[1].k = "inst"
                /\ \E ext \in {InstrOf(B, mul.ops[1].id)} :
                    /\ ext.op = "zext"
                    /\ isPadRead(B, f, ext.ops[1])

\* the pairing around the call site at position p of block blk: between the
\* preceding original call site and this one there is exactly one save, and
\* after it exactly one restore, of the adjusted pointer; between this call
\* site and the next save or original call site there is exactly one
\* restore, directly after the call site, of the pointer that save returned
Last(Q)  == CHOOSE q \in Q : \A r \in Q : r <= q
First(Q) == CHOOSE q \in Q : \A r \in Q : q <= r
\* calls, saves, restores: the positions in blk of the original call sites
\* and of the calls of llvm.stacksave and llvm.stackrestore
isPaired(B, f, ps, blk, p, calls, saves, restores) ==
    \A prev \in {Last({0} \cup {q \in calls : q < p})} :
    \A next \in {First({Len(blk) + 1} \cup {q \in calls \cup saves : q > p})} :
        /\ Cardinality({q \in saves : prev < q /\ q < p}) = 1
        /\ \E s \in {q \in saves : prev < q /\ q < p} :
            /\ Cardinality({q \in restores : s < q /\ q < p}) = 1
            /\ \A q \in {q \in restores : s < q /\ q < p} :
                   isAdjusted(B, f, ps, blk[q].ops[1], blk[s].id)
            /\ {q \in restores : p < q /\ q < next} = {p + 1}
            /\ blk[p + 1].ops[1] = Inst(blk[s].id)

\* C4: every call site, direct or indirect, that a locally defined function
\* had before stack randomization is surrounded by exactly one stack-save
\* and one stack-restore of saved_sp minus the pad size before it and exactly
\* one stack-restore of that save's pointer after it, from the moment stack
\* randomization has transformed the function to the end of the pass, code
\* randomization included.
C4_StackPadPairing ==
    \A f \in Padded :
    \A B \in {FnOf(funcs, f).blocks} :
        \A b \in DOMAIN B : \A blk \in {B[b]} :
        \A calls \in {{q \in DOMAIN blk : isOriginalCall(blk[q])}} :
        \A saves \in {{q \in DOMAIN blk : isCallTo(blk[q], "llvm.stacksave")}} :
        \A restores \in {{q \in DOMAIN blk : isCallTo(blk[q], "llvm.stackrestore")}} :
            \A p \in calls : isPaired(B, f, ptrSize, blk, p, calls, saves, restores)

\* the pass has finished, and code randomization has rewritten a padded
\* function that has an indirect call site next to direct ones
C4_Witness ==
    /\ pc = "done"
    /\ \E f \in Padded \cap Randomized :
        /\ Collected(f) # {}
        /\ \E i \in AllInstrs(FnOf(funcs, f)) :
               isOriginalCall(i) /\ i.ops[Len(i.ops)].k = "arg"
        /\ Cardinality({i \in AllInstrs(FnOf(funcs, f)) : isOriginalCall(i)}) >= 3

\* the constructor tables of the module, by name, and the table of the input
CtorTablesNow == {i \in DOMAIN globals : globals[i].name = "llvm.global_ctors"}
InputHasTable ==
    \E i \in DOMAIN input.globals : input.globals[i].name = "llvm.global_ctors"
InputTable ==
    input.globals[CHOOSE i \in DOMAIN input.globals :
                      input.globals[i].name = "llvm.global_ctors"]

\* C5: once makeConstructor has run, and so when the pass has finished, the
\* module has exactly one global named llvm.global_ctors; it has exactly one
\* entry, with priority 65535 and target stabilizer.module_ctor; and the
\* table the input had is no longer in the module, under any name.  This
\* holds for inputs without a table, with an empty table and with tables of
\* one or more entries at any priorities, for every option subset.
C5_ConstructorUniqueness ==
    hasFunction(funcs, "stabilizer.module_ctor") =>
        /\ Cardinality(CtorTablesNow) = 1
        /\ \A i \in CtorTablesNow :
            /\ globals[i].init.k = "agg"
            /\ Len(globals[i].init.ops) = 1
            /\ globals[i].init.ops[1].ops[1] = CInt(32, 65535)
            /\ globals[i].init.ops[1].ops[2] =
                   Fn(getFunction(funcs, "stabilizer.module_ctor").h)
        /\ InputHasTable => \A i \in DOMAIN globals : globals[i].h # InputTable.h

\* the pass has finished on an input whose table had several entries, at
\* priorities other than 65535 too
C5_Witness ==
    /\ pc = "done"
    /\ InputHasTable
    /\ InputTable.init.k = "agg"
    /\ Len(InputTable.init.ops) >= 2
    /\ InputTable.init.ops[1].ops[1] # CInt(32, 65535)
    /\ stabilize_code /\ stabilize_stack /\ stabilize_heap

\* the function main of the input, when the input defines it
InputDefinesMain ==
    \E i \in DOMAIN input.funcs :
        input.funcs[i].name = "main" /\ ~isDeclaration(input.funcs[i])
InputMain == getFunction(input.funcs, "main")

\* the instructions a body has from the input, as <<identity, opcode>>, the
\* float conversions that Step C replaces by calls left out
Skeleton(blocks, a) ==
    [b \in DOMAIN blocks |->
        LET kept == SelectSeq(blocks[b],
                              LAMBDA i : i.id < FirstFreshId /\ ~isFloatConversion(i, a))
        IN  [k \in DOMAIN kept |-> <<kept[k].id, kept[k].op>>]]

isIntroducedLoad(i) == i.op = "load" /\ (i.nm = "fconst.load" \/ isRelocationLoad(i))

\* the uses <<block, position, operand, identity>> of instruction results in
\* a body, and those of the result of instruction id
AllUses(B) ==
    UNION {UNION {{<<b, p, o, B[b][p].ops[o].id>> :
                      o \in {o \in DOMAIN B[b][p].ops : B[b][p].ops[o].k = "inst"}} :
                  p \in DOMAIN B[b]} : b \in DOMAIN B}
UsesOf(U, id) == {u \in U : u[4] = id}

\* the load at position p of block b sits where the pass has to put it for
\* its use u: in the block of the user and before it, or for a PHI node in
\* the incoming block of the operand and before that block's terminator,
\* with nothing but other introduced loads in between
isPlacedFor(B, b, p, u) ==
    LET user   == B[u[1]][u[2]]
        target == IF user.op = "phi" THEN <<user.inc[u[3]], Len(B[user.inc[u[3]]])>>
                  ELSE <<u[1], u[2]>>
    IN  /\ b = target[1]
        /\ p < target[2]
        /\ \A q \in (p + 1)..(target[2] - 1) : isIntroducedLoad(B[b][q])

\* C7: in a function that code randomization has transformed, no load that
\* Step C or Step G introduced precedes a PHI node of its basic block; each
\* such load has one use, and it was inserted before the using instruction
\* or, when the user is a PHI node, before the terminator of the predecessor
\* block of that incoming edge.
C7_PhiSafeLoads ==
    \A f \in Randomized :
    \A B \in {FnOf(funcs, f).blocks} :
    \A U \in {AllUses(B)} :
        \A b \in DOMAIN B : \A p \in DOMAIN B[b] :
            isIntroducedLoad(B[b][p]) =>
                /\ \A q \in (p + 1)..Len(B[b]) : B[b][q].op # "phi"
                /\ Cardinality(UsesOf(U, B[b][p].id)) = 1
                /\ \A u \in UsesOf(U, B[b][p].id) : isPlacedFor(B, b, p, u)

\* a transformed function in which a PHI node uses a load that Step C
\* introduced and a load that Step G introduced
C7_Witness ==
    \E f \in Randomized :
    \E B \in {FnOf(funcs, f).blocks} :
    \E U \in {AllUses(B)} :
        /\ \E i \in AllInstrs(FnOf(funcs, f)) :
               i.nm = "fconst.load" /\ \E u \in UsesOf(U, i.id) : B[u[1]][u[2]].op = "phi"
        /\ \E i \in AllInstrs(FnOf(funcs, f)) :
               isRelocationLoad(i) /\ \E u \in UsesOf(U, i.id) : B[u[1]][u[2]].op = "phi"

\* Intrinsic Lowering: the intrinsics of the input that the pass has to
\* lower or to warn about, and the operand slots of the input that hold a
\* given function, as <<user, block, position, operand>>
LowerCandidates ==
    {i \in DOMAIN input.funcs :
        isIntrinsic(input.funcs[i]) /\ ~isAlwaysInlined(input.funcs[i].name)}
SlotsOf(F, h) ==
    UNION {UNION {UNION {
        {<<F[i].h, b, k, o>> : o \in {o \in DOMAIN F[i].blocks[b][k].ops :
                                        F[i].blocks[b][k].ops[o] = Fn(h)}} :
            k \in DOMAIN F[i].blocks[b]} :
            b \in DOMAIN F[i].blocks} :
            i \in DOMAIN F}
SlotValue(F, u) == FnOf(F, u[1]).blocks[u[2]][u[3]].ops[u[4]]

\* outcome (a): F is gone and each of its former uses holds an
\* external-linkage function named r
isLowered(f, r) ==
    /\ ~hasHandle(funcs, f.h)
    /\ \A u \in SlotsOf(input.funcs, f.h) :
        /\ SlotValue(funcs, u).k = "fn"
        /\ hasHandle(funcs, SlotValue(funcs, u).h)
        /\ FnOf(funcs, SlotValue(funcs, u).h).name = r
        /\ FnOf(funcs, SlotValue(funcs, u).h).linkage = "external"
\* outcome (b): a warning names F, F is in the module, its uses are the same
isWarnedAbout(f) ==
    /\ \E w \in DOMAIN warnings :
           warnings[w] = "warning: unable to handle intrinsic " \o f.name
    /\ hasHandle(funcs, f.h)
    /\ SlotsOf(funcs, f.h) = SlotsOf(input.funcs, f.h)

\* C8: after Intrinsic Lowering, every function F of the input that is an
\* intrinsic and not always-inlined either has a libcall r, is gone from
\* the module and has each former use referring to an external-linkage
\* function named r, or has no libcall, was named in a warning and is in
\* the module with its uses unchanged, never both; and no function leaves
\* the module before the scan over all functions is complete.
C8_IntrinsicErasure ==
    /\ pc = "scan" => \A i \in DOMAIN input.funcs : hasHandle(funcs, input.funcs[i].h)
    /\ pc = "lowered" =>
        \A i \in LowerCandidates :
            LET f == input.funcs[i]
                r == GetLibcall(f.name)
            IN  /\ (r # "" /\ isLowered(f, r)) \/ (r = "" /\ isWarnedAbout(f))
                /\ ~(isLowered(f, r) /\ isWarnedAbout(f))

\* the lowered intrinsics of the input that map to r, and the sum of their
\* use counts in the input
LoweredTo(r) == {i \in LowerCandidates : GetLibcall(input.funcs[i].name) = r}
RECURSIVE SumOfUses(_)
SumOfUses(I) ==
    IF I = {} THEN 0
    ELSE LET i == CHOOSE i \in I : TRUE
         IN  UseCount(input.funcs, input.funcs[i].h) + SumOfUses(I \ {i})
UsesBefore(r) ==
    IF hasFunction(input.funcs, r)
    THEN UseCount(input.funcs, getFunction(input.funcs, r).h) ELSE 0

\* C9: after Intrinsic Lowering, for every libcall name r to which an
\* intrinsic was lowered, the module has an external declaration r, and the
\* number of its uses is the number of uses r had before the pass plus the
\* sum of the use counts, before the pass, of the lowered intrinsics that
\* map to r.
C9_UseCountPreserved ==
    pc = "lowered" =>
        \A r \in LibcallNames :
            LoweredTo(r) # {} =>
                /\ hasFunction(funcs, r)
                /\ getFunction(funcs, r).linkage = "external"
                /\ UseCount(funcs, getFunction(funcs, r).h)
                       = UsesBefore(r) + SumOfUses(LoweredTo(r))

\* the input functions that are randomizable targets, and the functions
\* the pass has put into the module
InputTargets ==
    {input.funcs[i].h : i \in {j \in DOMAIN input.funcs :
                                  /\ ~isIntrinsic(input.funcs[j])
                                  /\ ~isDeclaration(input.funcs[j])
                                  /\ input.funcs[j].name # "__gxx_personality_v0"}}
InputHandles == {input.funcs[i].h : i \in DOMAIN input.funcs}
Synthesized == {i \in DOMAIN funcs : funcs[i].h \notin InputHandles}
AllocatorDeclarations ==
    {"stabilizer_malloc", "stabilizer_calloc", "stabilizer_realloc", "stabilizer_free"}

\* the calls of stabilizer_register_function in the constructor
Registrations ==
    IF hasFunction(funcs, "stabilizer.module_ctor")
    THEN {k \in DOMAIN CtorBody(funcs) :
             isCallTo(CtorBody(funcs)[k], "stabilizer_register_function")}
    ELSE {}
CodeBase(k) == CtorBody(funcs)[k].ops[1]

\* the snapshot holds exactly the randomizable targets of the input
SnapshotIsInputTargets ==
    pc \notin {"heap", "snapshot"} =>
        /\ Range(local_functions) = InputTargets
        /\ Len(local_functions) = Cardinality(InputTargets)
\* one registration per function that code randomization has processed,
\* which in the end is every snapshot function, and no other registration
OneRegistrationEach ==
    /\ Randomized \subseteq Range(local_functions)
    /\ \A f \in Randomized :
           Cardinality({k \in Registrations : CodeBase(k) = getPointerCast(Fn(f), "i8*")}) = 1
    /\ \A k \in Registrations : \E f \in Randomized : CodeBase(k) = getPointerCast(Fn(f), "i8*")
    /\ (stabilize_code /\ pc \in {"register", "pads", "main", "done"}) =>
           Randomized = Range(local_functions)
\* no synthesized function has a sentinel, a stack pad or a relocation table
SynthesizedUntouched ==
    \A i \in Synthesized :
        /\ ~hasFunction(funcs, "stabilizer.dummy." \o funcs[i].name)
        /\ funcs[i].h \notin DOMAIN stackPads
        /\ \A g \in DOMAIN globals :
               /\ globals[g].name # funcs[i].name \o ".stack_pad"
               /\ globals[g].name # funcs[i].name \o ".relocation_table"

\* C10 as stated: the snapshot is taken before the pass has inserted any
\* function and holds exactly the input functions that are not intrinsics,
\* not declarations and not __gxx_personality_v0; the constructor has one
\* stabilizer_register_function call per snapshot function and none for a
\* synthesized function; no synthesized function gets a sentinel, a stack
\* pad or a relocation table.
C10_SnapshotBeforeInsertions ==
    /\ pc = "snapshot" => Synthesized = {}
    /\ SnapshotIsInputTargets
    /\ OneRegistrationEach
    /\ SynthesizedUntouched

\* C10 amended: when the snapshot is taken the pass has inserted nothing
\* but the declarations of the stabilizer_ allocator functions (heap
\* randomization runs first); the snapshot holds exactly the input
\* functions that are not intrinsics, not declarations and not
\* __gxx_personality_v0; the rest as stated.
C10_SnapshotIsolation ==
    /\ pc = "snapshot" =>
           \A i \in Synthesized :
               isDeclaration(funcs[i]) /\ funcs[i].name \in AllocatorDeclarations
    /\ SnapshotIsInputTargets
    /\ OneRegistrationEach
    /\ SynthesizedUntouched

\* the pass has finished with every option on: allocator declarations were
\* there before the snapshot, and sentinels, a converter function and the
\* constructor came after it
C10_Witness ==
    /\ pc = "done"
    /\ stabilize_heap /\ stabilize_stack /\ stabilize_code
    /\ Len(local_functions) = 2
    /\ Cardinality(Registrations) = 2
    /\ hasFunction(funcs, "stabilizer_malloc")
    /\ hasFunction(funcs, "sitofp.i32.double")
    /\ hasFunction(funcs, "stabilizer.dummy.main")

\* the stack pads of the module: the globals named after a randomizable
\* target of the input, and the operand slots of the constructor that hold
\* a given value
PadGlobals ==
    {i \in DOMAIN globals :
        \E f \in InputTargets : globals[i].name = f \o ".stack_pad"}
PadOwner(i) ==
    CHOOSE f \in InputTargets : globals[i].name = f \o ".stack_pad"
CtorSlotsOf(v) ==
    {<<k, o>> \in (DOMAIN CtorBody(funcs)) \X (1..7) :
        o \in DOMAIN CtorBody(funcs)[k].ops /\ CtorBody(funcs)[k].ops[o] = v}
PadRegistrations ==
    {k \in DOMAIN CtorBody(funcs) :
        isCallTo(CtorBody(funcs)[k], "stabilizer_register_stack_pad")}

\* C11: when the pass has finished with stabilize-stack on, every snapshot
\* function has its pad global and every pad global occurs in the
\* constructor exactly once: as the sixth (last) argument of the
\* stabilizer_register_function call of its own function when
\* stabilize-code is on, and then there is no stabilizer_register_stack_pad
\* call, or as the argument of a stabilizer_register_stack_pad call when
\* stabilize-code is off.  With stabilize-stack off there is no pad, every
\* stabilizer_register_function call carries a null stack-pad pointer and
\* there is no stabilizer_register_stack_pad call.
C11_PadRegisteredOnce ==
    pc = "done" =>
        /\ stabilize_stack =>
            /\ \A f \in InputTargets :
                   Cardinality({i \in PadGlobals : PadOwner(i) = f}) = 1
            /\ \A i \in PadGlobals :
               \A S \in {CtorSlotsOf(GV(globals[i].h))} :
                   /\ Cardinality(S) = 1
                   /\ \A u \in S :
                       IF stabilize_code
                       THEN /\ u[1] \in Registrations
                            /\ u[2] = 6
                            /\ Len(CtorBody(funcs)[u[1]].ops) = 7
                            /\ CodeBase(u[1]) = getPointerCast(Fn(PadOwner(i)), "i8*")
                       ELSE /\ u[1] \in PadRegistrations
                            /\ u[2] = 1
                            /\ Len(CtorBody(funcs)[u[1]].ops) = 2
            /\ stabilize_code => PadRegistrations = {}
            /\ ~stabilize_code =>
                   Cardinality(PadRegistrations) = Cardinality(PadGlobals)
        /\ ~stabilize_stack =>
            /\ PadGlobals = {}
            /\ PadRegistrations = {}
            /\ \A k \in Registrations :
                   /\ Len(CtorBody(funcs)[k].ops) = 7
                   /\ CtorBody(funcs)[k].ops[6] = Null

\* the pass has finished with stabilize-stack on and stabilize-code off on
\* a module with two snapshot functions and pre-existing constructors: two
\* pads were registered by themselves
C11_Witness ==
    /\ pc = "done"
    /\ stabilize_stack /\ ~stabilize_code
    /\ Cardinality(PadGlobals) = 2
    /\ Cardinality(PadRegistrations) = 2
    /\ Len(old_ctors) >= 1

\* the registration call of function f in the constructor
RegistrationOf(f) ==
    CtorBody(funcs)[CHOOSE k \in Registrations :
                        CodeBase(k) = getPointerCast(Fn(f), "i8*")]
\* the byte size of the struct type of a table: its fields have the types
\* of the entries of the initializer
TableSize(f) ==
    getSizeOf([i \in DOMAIN TableEntries(f) |-> TypeOf(TableEntries(f)[i])], ptrSize)

\* C12: the stabilizer_register_function call of every function F that code
\* randomization has processed starts with F as a byte pointer and the
\* function stabilizer.dummy.F as a byte pointer; when Step D collected
\* nothing in F the next three arguments are a null pointer, the 32-bit 0
\* and the 1-bit 0; otherwise they are the global F.relocation_table as a
\* byte pointer (on every target), the byte size of the struct type of that
\* table as a 32-bit integer, and a 1-bit flag that is 1 on x86-64 and on
\* unrecognised targets and 0 on x86-32 and PowerPC.
C12_RegistrationTuple ==
    \A f \in Randomized :
    \A call \in {RegistrationOf(f)} :
        /\ call.ops[1] = Expr("i8*", <<Fn(f)>>)
        /\ call.ops[2].k = "expr" /\ call.ops[2].ty = "i8*"
        /\ Len(call.ops[2].ops) = 1 /\ call.ops[2].ops[1].k = "fn"
        /\ FnOf(funcs, call.ops[2].ops[1].h).name = "stabilizer.dummy." \o f
        /\ IF Collected(f) = {}
           THEN /\ call.ops[3] = Null
                /\ call.ops[4] = CInt(32, 0)
                /\ call.ops[5] = CInt(1, 0)
                /\ ~hasRelocationTable(f)
           ELSE /\ hasRelocationTable(f)
                /\ call.ops[3] = Expr("i8*", <<GV(RelocationTable(f).h)>>)
                /\ call.ops[4] = CInt(32, TableSize(f))
                /\ call.ops[5] =
                       CInt(1, IF arch \in {"x86_64", "amd64", "aarch64"} THEN 1
                               ELSE IF arch \in {"i386", "powerpc"} THEN 0
                               ELSE 2)

\* the pass has finished on an unrecognised target: one function was
\* registered with a table of two entries or more, its size and the flag 1,
\* and one function without a table
C12_Witness ==
    /\ pc = "done"
    /\ arch = "aarch64"
    /\ \E f \in Randomized :
        /\ Cardinality(Collected(f)) >= 2
        /\ RegistrationOf(f).ops[4] = CInt(32, 8 * Cardinality(Collected(f)))
        /\ RegistrationOf(f).ops[5] = CInt(1, 1)
    /\ \E f \in Randomized : Collected(f) = {}

\* the entries of the constructor table of the input, in table order
InputCtorEntries ==
    IF InputHasTable /\ InputTable.init.k = "agg" THEN InputTable.init.ops ELSE <<>>

\* C13: when the pass has finished, stabilizer.module_ctor has a single
\* basic block that consists of, in this order: the
\* stabilizer_register_function calls (one per snapshot function with
\* stabilize-code on, none otherwise); one stabilizer_register_constructor
\* call per entry of the constructor table of the input, in the order of
\* the entries and whatever their priorities, each passing the function of
\* its entry; the stabilizer_register_stack_pad calls (one per snapshot
\* function with stabilize-stack on and stabilize-code off, none
\* otherwise); and one void return, which is the last instruction and the
\* only return.
C13_CtorBodyOrder ==
    pc = "done" =>
        /\ Len(FnOf(funcs, "stabilizer.module_ctor").blocks) = 1
        /\ \A B  \in {CtorBody(funcs)} :
           \A nR \in {IF stabilize_code THEN Cardinality(InputTargets) ELSE 0} :
           \A nC \in {Len(InputCtorEntries)} :
           \A nP \in {IF stabilize_stack /\ ~stabilize_code
                      THEN Cardinality(InputTargets) ELSE 0} :
               /\ Len(B) = nR + nC + nP + 1
               /\ \A k \in 1..nR : isCallTo(B[k], "stabilizer_register_function")
               /\ \A k \in 1..nC :
                      B[nR + k].ops = << InputCtorEntries[k].ops[2],
                                         Fn("stabilizer_register_constructor") >>
               /\ \A k \in 1..nP :
                      isCallTo(B[nR + nC + k], "stabilizer_register_stack_pad")
               /\ B[Len(B)].op = "ret" /\ B[Len(B)].ops = <<>>
               /\ \A k \in DOMAIN B :
                      /\ B[k].op = "ret" => k = Len(B)
                      /\ k < Len(B) => isCallInst(B[k])

\* the pass has finished with stabilize-code on: two functions were
\* registered, then the two constructors of the input table, whose
\* priorities are not the default one and differ
C13_Witness ==
    /\ pc = "done"
    /\ stabilize_code
    /\ Cardinality(Registrations) = 2
    /\ Len(InputCtorEntries) = 2
    /\ InputCtorEntries[1].ops[1] # InputCtorEntries[2].ops[1]
    /\ InputCtorEntries[1].ops[1] # CInt(32, CtorPriority)
    /\ Len(CtorBody(funcs)) = 5

AllocatorNames == {"malloc", "calloc", "realloc", "free"}

\* the operand slots of the function list F that hold function h, as
\* <<user, instruction identity, operand>>, and what such a slot holds in
\* the module as it is now
UsesById(F, h) ==
    UNION {UNION {{<<F[i].h, ins.id, o>> :
                      o \in {o \in DOMAIN ins.ops : ins.ops[o] = Fn(h)}} :
                  ins \in AllInstrs(F[i])} : i \in DOMAIN F}
InstrNow(u) == InstrOf(FnOf(funcs, u[1]).blocks, u[2])
InstrThen(u) == InstrOf(FnOf(input.funcs, u[1]).blocks, u[2])
\* the other operands of the user are what they were
SameArguments(u) ==
    /\ Len(InstrNow(u).ops) = Len(InstrThen(u).ops)
    /\ \A o \in DOMAIN InstrThen(u).ops :
           o # u[3] => InstrNow(u).ops[o] = InstrThen(u).ops[o]
\* the replacement is in the module: an external declaration of that type
hasReplacement(name) ==
    /\ hasFunction(funcs, "stabilizer_" \o name)
    /\ \A new \in {getFunction(funcs, "stabilizer_" \o name)} :
        /\ new.linkage = "external"
        /\ isDeclaration(new)
        /\ new.ty = getFunction(input.funcs, name).ty
\* the slot holds a load from the relocation-table slot of the user whose
\* entry is value v
isIndirect(u, v) ==
    /\ InstrNow(u).ops[u[3]].k = "inst"
    /\ \E ld \in {InstrOf(FnOf(funcs, u[1]).blocks, InstrNow(u).ops[u[3]].id)} :
        /\ isRelocationLoad(ld)
        /\ hasRelocationTable(u[1])
        /\ TableEntries(u[1])[ld.ops[1].ops[3].v + 1] = v

\* C14 as stated: after the pass with stabilize-heap on, for each of
\* malloc, calloc, realloc and free that the input has a function for, that
\* function is still in the module and has no uses, every operand slot that
\* held it holds an external declaration stabilizer_<name> of the same
\* function type, and the other operands of the user are unchanged; for the
\* names the input has no function for there is no stabilizer_<name>.
C14_AllocatorUsesDirect ==
    (pc = "done" /\ stabilize_heap) =>
        \A name \in AllocatorNames :
            IF hasFunction(input.funcs, name)
            THEN \A old \in {getFunction(input.funcs, name)} :
                 /\ hasHandle(funcs, old.h)
                 /\ UsesById(funcs, old.h) = {}
                 /\ hasReplacement(name)
                 /\ \A u \in UsesById(input.funcs, old.h) :
                     /\ InstrNow(u).ops[u[3]] = Fn(getFunction(funcs, "stabilizer_" \o name).h)
                     /\ SameArguments(u)
            ELSE ~hasFunction(funcs, "stabilizer_" \o name)

\* C14 amended: with stabilize-heap on, from the end of heap randomization
\* to the end of the pass, for each of malloc, calloc, realloc and free
\* that the input has a function for, that function is still in the module
\* and has no uses, and the module has an external declaration
\* stabilizer_<name> of the same function type; an operand slot that held
\* the original holds that declaration, with the other operands of its user
\* unchanged, until code randomization transforms the using function, and
\* from then on it holds a load from the slot of that function's relocation
\* table whose entry is the declaration.  For the names the input has no
\* function for there is no stabilizer_<name>.
C14_AllocatorUsesMoved ==
    (pc # "heap" /\ stabilize_heap) =>
        \A name \in AllocatorNames :
            IF hasFunction(input.funcs, name)
            THEN \A old \in {getFunction(input.funcs, name)} :
                 /\ hasHandle(funcs, old.h)
                 /\ UsesById(funcs, old.h) = {}
                 /\ \A i \in DOMAIN globals : globals[i].init # Fn(old.h)
                 /\ hasReplacement(name)
                 /\ \A new \in {Fn(getFunction(funcs, "stabilizer_" \o name).h)} :
                    \A u \in UsesById(input.funcs, old.h) :
                        IF u[1] \in Randomized
                        THEN isIndirect(u, new)
                        ELSE InstrNow(u).ops[u[3]] = new /\ SameArguments(u)
            ELSE ~hasFunction(funcs, "stabilizer_" \o name)

\* the pass has finished with stabilize-heap and stabilize-code on: a call
\* of malloc in a transformed function now calls through the relocation
\* table, free was declared but not used, calloc was not declared
C14_Witness ==
    /\ pc = "done"
    /\ stabilize_heap /\ stabilize_code
    /\ hasFunction(input.funcs, "free")
    /\ ~hasFunction(input.funcs, "calloc")
    /\ \E u \in UsesById(input.funcs, "malloc") :
        /\ u[1] \in Randomized
        /\ InstrThen(u).op = "call"
        /\ isIndirect(u, Fn("stabilizer_malloc"))

AllOff == ~stabilize_heap /\ ~stabilize_stack /\ ~stabilize_code

\* the functions the pass declares or defines whatever the options are
RuntimeNames == {"stabilizer_register_function", "stabilizer_register_constructor",
                 "stabilizer_register_stack_pad", "stabilizer.module_ctor"}
InputGlobalHandles == {input.globals[i].h : i \in DOMAIN input.globals}

\* C15: with stabilize-heap, stabilize-stack and stabilize-code all off,
\* at every point of the pass every function of the input is in the module
\* with the body, attributes, linkage, type and alignment it had, and with
\* its name, except that in the end main is named stabilizer_main; the only
\* functions added are the three runtime declarations and
\* stabilizer.module_ctor, so there is no sentinel, converter or
\* stabilizer_ allocator declaration; the only global added is the new
\* constructor table, so there is no stack pad, relocation table or fconst
\* global, and the other globals of the input are unchanged; and in the end
\* the constructor body is one stabilizer_register_constructor call per
\* entry of the input table followed by a return, a single return when
\* there was no entry.
C15_AllOptionsOff ==
    AllOff =>
        /\ \A i \in DOMAIN input.funcs :
           \A old \in {input.funcs[i]} :
               /\ hasHandle(funcs, old.h)
               /\ \A new \in {FnOf(funcs, old.h)} :
                   /\ new.blocks = old.blocks
                   /\ new.attrs = old.attrs
                   /\ new.linkage = old.linkage
                   /\ new.ty = old.ty
                   /\ new.align = old.align
                   /\ new.name = IF pc = "done" /\ old.name = "main"
                                 THEN "stabilizer_main" ELSE old.name
        /\ \A i \in Synthesized : funcs[i].name \in RuntimeNames
        /\ \A i \in DOMAIN globals :
               IF globals[i].h \in InputGlobalHandles
               THEN globals[i] \in Range(input.globals)
               ELSE globals[i].name = "llvm.global_ctors"
        /\ stackPads = <<>> /\ hist = <<>>
        /\ pc = "done" =>
            /\ Len(CtorBody(funcs)) = Len(InputCtorEntries) + 1
            /\ \A k \in DOMAIN InputCtorEntries :
                   CtorBody(funcs)[k].ops = << InputCtorEntries[k].ops[2],
                                              Fn("stabilizer_register_constructor") >>
            /\ CtorBody(funcs)[Len(CtorBody(funcs))].op = "ret"

\* the pass has finished with all options off on a module whose functions
\* have a linkonce_odr linkage, stack protection attributes, allocator
\* calls and global references, that defines main and has constructors
C15_Witness ==
    /\ pc = "done"
    /\ AllOff
    /\ InputDefinesMain
    /\ hasFunction(funcs, "stabilizer_main")
    /\ hasFunction(funcs, "f")
    /\ getFunction(funcs, "f").linkage = "linkonce_odr"
    /\ "ssp" \in getFunction(funcs, "f").attrs
    /\ UsesById(funcs, "malloc") # {}
    /\ Len(InputCtorEntries) = 2
    /\ Len(CtorBody(funcs)) = 3

\* the position a function has in the function list of the input
InputPosition(f) == CHOOSE i \in DOMAIN input.funcs : input.funcs[i].h = f
\* the functions registered by stabilizer_register_function, in the order
\* of the calls in the constructor, and the owners of the stack pads in the
\* order in which the pads were created
RegisteredOrder ==
    IF hasFunction(funcs, "stabilizer.module_ctor")
    THEN LET calls == SelectSeq(CtorBody(funcs),
                                LAMBDA i : isCallTo(i, "stabilizer_register_function"))
         IN  [k \in DOMAIN calls |-> calls[k].ops[1].ops[1].h]
    ELSE <<>>
PaddedOrder ==
    LET pads == SelectSeq(globals,
                          LAMBDA g : \E f \in InputTargets : g.name = f \o ".stack_pad")
    IN  [k \in DOMAIN pads |->
            CHOOSE f \in InputTargets : pads[k].name = f \o ".stack_pad"]
isPrefix(s, t) == Len(s) <= Len(t) /\ s = SubSeq(t, 1, Len(s))

\* C16 as stated: the stabilizer_register_function calls in the constructor
\* are in the relative order their functions have in the function list of
\* the input, and stack randomization creates its pads in that order.
C16_VisitInModuleOrder ==
    /\ \A k, l \in DOMAIN RegisteredOrder :
           k < l => InputPosition(RegisteredOrder[k]) < InputPosition(RegisteredOrder[l])
    /\ \A k, l \in DOMAIN PaddedOrder :
           k < l => InputPosition(PaddedOrder[k]) < InputPosition(PaddedOrder[l])

\* C16 amended: stack randomization and code randomization visit the
\* snapshot functions in one and the same order, the iteration order of
\* the snapshot set, which enumerates every snapshot function once and
\* need not be the order of the function list; the
\* stabilizer_register_function calls in the constructor and the stack
\* pads among the globals appear in that order.
C16_VisitInSetOrder ==
    /\ isPrefix(RegisteredOrder, local_functions)
    /\ isPrefix(PaddedOrder, local_functions)
    /\ \A k, l \in DOMAIN local_functions :
           local_functions[k] = local_functions[l] => k = l
    /\ pc = "done" =>
        /\ stabilize_code => RegisteredOrder = local_functions
        /\ stabilize_stack => PaddedOrder = local_functions

\* the pass has finished with stabilize-stack and stabilize-code on, and
\* the two snapshot functions were padded and registered against the order
\* of the function list
C16_Witness ==
    /\ pc = "done"
    /\ stabilize_stack /\ stabilize_code
    /\ Len(RegisteredOrder) = 2
    /\ PaddedOrder = RegisteredOrder
    /\ InputPosition(RegisteredOrder[1]) > InputPosition(RegisteredOrder[2])

\* a constant that is, or recursively contains, a floating-point literal;
\* constant aggregates and vectors are looked into
RECURSIVE ContainsFloatLiteral(_)
ContainsFloatLiteral(v) ==
    CASE v.k = "fp" -> TRUE
      [] v.k \in {"expr", "agg"} -> \E o \in DOMAIN v.ops : ContainsFloatLiteral(v.ops[o])
      [] OTHER -> FALSE

\* C17: in every function that code randomization has transformed, and so
\* after Step C has run on it, no instruction has a constant operand that
\* contains, recursively, a floating-point literal; this covers the calls
\* of converter functions that Step C inserted and operands that are
\* constant aggregates or vectors.
C17_NoFloatLiteralOperands ==
    \A f \in Randomized :
        \A i \in AllInstrs(FnOf(funcs, f)) :
            \A o \in DOMAIN i.ops :
                ~(isConstant(i.ops[o]) /\ ContainsFloatLiteral(i.ops[o]))

\* the conversions Step C has to replace on the target at hand, and the
\* name that encodes opcode, input type and output type of one of them
ConversionOpcodes ==
    {"fptosi", "fptoui", "sitofp", "uitofp"}
    \cup (IF arch \in {"powerpc", "powerpc64"} THEN {"fptrunc"} ELSE {})
InputBody(f) == FnOf(input.funcs, f).blocks
InputConversions(f) == {i \in AllInstrs(FnOf(input.funcs, f)) : i.op \in ConversionOpcodes}
ConverterOf(f, i) == i.op \o "." \o ValueType(InputBody(f), i.ops[1]) \o "." \o i.ty
\* the functions of the module that are converters: named after a conversion
Converters ==
    {k \in DOMAIN funcs :
        \E f \in InputTargets : \E i \in InputConversions(f) :
            funcs[k].name = ConverterOf(f, i)}

\* c is a call of the function named n in body B, direct or, once Step G
\* has rewritten it, through the slot of f's relocation table that holds
\* that function
isConverterCall(B, f, c, n) ==
    /\ c.op = "call"
    /\ Len(c.ops) = 2
    /\ \/ c.ops[2].k = "fn" /\ FnOf(funcs, c.ops[2].h).name = n
       \/ /\ c.ops[2].k = "inst"
          /\ \E ld \in {InstrOf(B, c.ops[2].id)} :
              /\ isRelocationLoad(ld)
              /\ hasRelocationTable(f)
              /\ \E e \in {TableEntries(f)[ld.ops[1].ops[3].v + 1]} :
                     e.k = "fn" /\ FnOf(funcs, e.h).name = n
\* c takes the operand conversion i had: the same value, or the call that
\* replaced the conversion which produced it
takesOperandOf(B, f, c, i) ==
    IF i.ops[1].k = "inst" /\ InstrOf(InputBody(f), i.ops[1].id).op \in ConversionOpcodes
    THEN /\ c.ops[1].k = "inst"
         /\ isConverterCall(B, f, InstrOf(B, c.ops[1].id),
                            ConverterOf(f, InstrOf(InputBody(f), i.ops[1].id)))
    ELSE c.ops[1] = i.ops[1]
\* conversion i of the input of f has been replaced in body B: i is gone, a
\* call c of its converter with its operand is in the block i was in, and
\* what used the result of i uses the result of c
isReplaced(B, f, i) ==
    /\ \A j \in AllInstrs([blocks |-> B]) : j.id # i.id
    /\ \E c \in {j \in Range(B[BlockOf(InputBody(f), i.id)]) : j.id >= FirstFreshId} :
        /\ isConverterCall(B, f, c, ConverterOf(f, i))
        /\ c.ty = i.ty
        /\ takesOperandOf(B, f, c, i)
        /\ \A u \in AllInstrs(FnOf(input.funcs, f)) :
           \A o \in DOMAIN u.ops :
               (u.ops[o] = Inst(i.id) /\ u.op \notin ConversionOpcodes) =>
                   InstrOf(B, u.id).ops[o] = Inst(c.id)

\* C18: in every function that code randomization has transformed there is
\* no fptosi, fptoui, sitofp or uitofp instruction, and on PowerPC no
\* fptrunc; each such instruction of the input was replaced, right after
\* Step C and still in the end, by a call of the converter named after its
\* opcode, input type and output type that takes its operand and whose
\* result is used where its result was; on the other targets the fptrunc
\* instructions are in place.  At every point the module has at most one
\* function per converter name, with internal linkage and a body that is
\* exactly the conversion of its argument followed by a return of the
\* result, so functions that need the same conversion call the same
\* converter.
C18_ConverterFunctions ==
    /\ \A f \in Randomized :
        /\ \A i \in AllInstrs(FnOf(funcs, f)) : i.op \notin ConversionOpcodes
        /\ \A i \in InputConversions(f) :
            /\ isReplaced(hist[f].collected, f, i)
            /\ isReplaced(FnOf(funcs, f).blocks, f, i)
        /\ \A i \in AllInstrs(FnOf(input.funcs, f)) :
               (i.op = "fptrunc" /\ "fptrunc" \notin ConversionOpcodes) =>
                   \E j \in AllInstrs(FnOf(funcs, f)) : j.id = i.id /\ j.op = "fptrunc"
    /\ \A k \in Converters :
        /\ \A l \in Converters : funcs[k].name = funcs[l].name => k = l
        /\ funcs[k].linkage = "internal"
        /\ funcs[k].h \notin Range(local_functions)
        /\ Len(funcs[k].blocks) = 1
        /\ Len(funcs[k].blocks[1]) = 2
        /\ \A conv \in {funcs[k].blocks[1][1]} : \A ret \in {funcs[k].blocks[1][2]} :
            /\ conv.ops = <<Arg(ValueType(funcs[k].blocks, conv.ops[1]))>>
            /\ funcs[k].name = conv.op \o "." \o conv.ops[1].ty \o "." \o conv.ty
            /\ ret.op = "ret"
            /\ ret.ops = <<Inst(conv.id)>>

\* the pass has finished on PowerPC: two functions had the same
\* conversions, a conversion of a conversion's result among them, and the
\* module has one converter for each of the three kinds
C18_Witness ==
    /\ pc = "done"
    /\ arch = "powerpc"
    /\ Cardinality({f \in Randomized : InputConversions(f) # {}}) = 2
    /\ Cardinality(Converters) = 3
    /\ hasFunction(funcs, "fptrunc.double.float")

\* C19: after Intrinsic Lowering, for every intrinsic F of the input that
\* has a libcall r, the module has a function named r with external
\* linkage and the function type of F, and every operand slot that held F
\* holds that function; this also when the input already had a function
\* named r and when intrinsics of different function types map to one r.
C19_LibcallSignature ==
    pc = "lowered" =>
        \A i \in LowerCandidates :
        \A f \in {input.funcs[i]} :
        \A r \in {GetLibcall(f.name)} :
            r # "" =>
                /\ hasFunction(funcs, r)
                /\ getFunction(funcs, r).linkage = "external"
                /\ getFunction(funcs, r).ty = f.ty
                /\ \A u \in SlotsOf(input.funcs, f.h) :
                       SlotValue(funcs, u) = Fn(getFunction(funcs, r).h)

StackProtectionAttributes == {"ssp", "sspreq", "sspstrong"}

\* C20: a function that code randomization has transformed carries none of
\* the stack-protection attributes ssp, sspreq and sspstrong; its linkage
\* is external when it was linkonce_odr in the input and is its input
\* linkage otherwise.
C20_StepBNormalization ==
    \A f \in Randomized :
    \A old \in {FnOf(input.funcs, f)} : \A new \in {FnOf(funcs, f)} :
        /\ new.attrs \cap StackProtectionAttributes = {}
        /\ new.linkage = IF old.linkage = "linkonce_odr" THEN "external"
                         ELSE old.linkage

\* constant v is, or recursively contains, the value w
RECURSIVE ReferencesValue(_, _)
ReferencesValue(v, w) ==
    \/ v = w
    \/ /\ v.k \in {"expr", "agg"}
       /\ \E o \in DOMAIN v.ops : ReferencesValue(v.ops[o], w)

\* the table that the rewritten code of f has to address
AddressedTable(f) ==
    IF arch \in {"i386", "powerpc"}
    THEN GV(RelocationTable(f).h)
    ELSE Expr(RelocationTable(f).ty \o "*",
              <<Fn(getFunction(funcs, "stabilizer.dummy." \o f).h)>>)
\* the loads from the relocation table in a body, and the value a recorded
\* use holds now
RelocationLoads(B) == {i \in AllInstrs([blocks |-> B]) : isRelocationLoad(i)}
HeldBy(B, u) == InstrOf(B, u[1]).ops[u[2]]
\* the position of constant c in the initializer of the table of f
PositionOf(f, c) == CHOOSE p \in DOMAIN TableEntries(f) : TableEntries(f)[p] = c
\* the load that replaces a use of c reads the slot of c: element
\* (0, position of c) of the addressed table, as a value of the type of c
readsSlotOf(f, ld, c) ==
    /\ isRelocationLoad(ld)
    /\ ld.ops[1].ops = << AddressedTable(f), CInt(32, 0), CInt(32, PositionOf(f, c) - 1) >>
    /\ ld.ops[1].src = RelocationTable(f).ty
    /\ TableEntries(f)[PositionOf(f, c)] = c
    /\ ld.ty = TypeOf(c)

\* C21: in a function F that code randomization has transformed, every use
\* that Step D recorded for a constant c holds the result of a load that
\* was inserted for it alone (one load per recorded use and no other load
\* from the table); the load reads element (0, i) of the addressed table, i
\* being the position of c in the initializer of F.relocation_table, and
\* yields it as a value of the type of c.  The addressed table is the
\* pointer cast of stabilizer.dummy.F on x86-64 and unrecognised targets
\* and the global F.relocation_table on x86-32 and PowerPC; on the former
\* no instruction of F has F.relocation_table among its operands.
C21_SlotConsistency ==
    \A f \in Randomized :
        Collected(f) # {} =>
            \A B \in {FnOf(funcs, f).blocks} :
            \A U \in {UNION {hist[f].references[c] : c \in Collected(f)}} :
                /\ \A c \in Collected(f) : \A u \in hist[f].references[c] :
                       /\ HeldBy(B, u).k = "inst"
                       /\ readsSlotOf(f, InstrOf(B, HeldBy(B, u).id), c)
                /\ \A u, v \in U : HeldBy(B, u) = HeldBy(B, v) => u = v
                /\ Cardinality(RelocationLoads(B)) = Cardinality(U)
                /\ arch \notin {"i386", "powerpc"} =>
                       \A i \in AllInstrs(FnOf(funcs, f)) : \A o \in DOMAIN i.ops :
                           ~ReferencesValue(i.ops[o], GV(RelocationTable(f).h))

\* the globals that the earlier phases put into the module: the fconst
\* globals of Step C (the symbol table numbers the later ones), the
\* converter functions, the stack pads and the allocator replacements
FconstNames == {"fconst"} \cup {"fconst." \o ToString(k) : k \in 1..32}
ConverterNames ==
    UNION {{ConverterOf(f, i) : i \in InputConversions(f)} : f \in InputTargets}
isIntroducedGlobal(v, converters) ==
    \/ /\ v.k = "gv"
       /\ \/ v.h \in FconstNames
          \/ \E g \in InputTargets : v.h = g \o ".stack_pad"
       /\ \E i \in DOMAIN globals : globals[i].h = v.h
    \/ /\ v.k = "fn"
       /\ hasHandle(funcs, v.h)
       /\ FnOf(funcs, v.h).name \in converters \cup AllocatorDeclarations
\* the operands of a body
OperandsOf(B) == UNION {Range(i.ops) : i \in AllInstrs([blocks |-> B])}

\* C22: in every function F that code randomization has transformed, each
\* global that heap randomization, stack randomization or Step C put among
\* the operands of F (an fconst global F loads, a converter F calls, the
\* pad F.stack_pad that F reads in front of its call sites, a stabilizer_
\* allocator declaration F uses) was collected by Step D, is an entry of
\* F.relocation_table, and is no longer among the operands of F; and every
\* call in F has as its callee an intrinsic or a value computed by an
\* instruction or passed as an argument, so a call of a non-intrinsic
\* function goes through a loaded table slot.
C22_PhaseOrderingFeedsTable ==
    \A f \in Randomized :
    \A Before \in {OperandsOf(hist[f].collected)} :
    \A Now \in {OperandsOf(FnOf(funcs, f).blocks)} :
    \A converters \in {ConverterNames} :
        /\ \A v \in Before :
               isIntroducedGlobal(v, converters) =>
                   /\ v \in Collected(f)
                   /\ hasRelocationTable(f)
                   /\ v \in Range(TableEntries(f))
                   /\ \A w \in Now : ~ReferencesValue(w, v)
        /\ \A i \in AllInstrs(FnOf(funcs, f)) :
               isCallInst(i) =>
                   \/ i.ops[Len(i.ops)].k \in {"inst", "arg"}
                   \/ /\ i.ops[Len(i.ops)].k = "fn"
                      /\ isIntrinsic(FnOf(funcs, i.ops[Len(i.ops)].h))

\* the pass has finished with every option on: the table of one function
\* holds an fconst global, the table of another holds its stack pad, the
\* stabilizer_malloc declaration and an external function it calls
C22_Witness ==
    /\ pc = "done"
    /\ stabilize_heap /\ stabilize_stack /\ stabilize_code
    /\ \E f \in Randomized :
        /\ hasRelocationTable(f)
        /\ \E v \in Range(TableEntries(f)) : v.k = "gv" /\ v.h \in FconstNames
    /\ \E f \in Randomized :
        /\ hasRelocationTable(f)
        /\ GV(f \o ".stack_pad") \in Range(TableEntries(f))
        /\ Fn("stabilizer_malloc") \in Range(TableEntries(f))
        /\ Fn("ext") \in Range(TableEntries(f))

(***************************************************************************)
(* C23: the arithmetic of a padded call site, checked on its execution      *)
(* (SpecPad).                                                               *)
(***************************************************************************)
RECURSIVE AddCarry(_, _, _)
AddCarry(a, b, k) ==
    IF k = 1 THEN 0 ELSE (a[k - 1] + b[k - 1] + AddCarry(a, b, k - 1)) \div LimbBase

\* a + b modulo 2^w, for two values of the same width w >= 16
AddWords(a, b) ==
    [k \in DOMAIN a |-> (a[k] + b[k] + AddCarry(a, b, k)) % LimbBase]

\* the positions of the two stack restores of the call site
RestoreSteps ==
    {k \in DOMAIN PaddedSite(ptrSize) :
        isCallTo(PaddedSite(ptrSize)[k], "llvm.stackrestore")}

\* the position of the call the site was built around
CallStep ==
    CHOOSE k \in DOMAIN PaddedSite(ptrSize) : PaddedSite(ptrSize)[k].id = 1

\* the result of the multiplication ("aligned_pad"), once it has executed
PadSizeId == FirstFreshId + 2
SavedId   == FirstFreshId + 3

\* C23: while a padded call site executes, for every pad byte 0..255 and
\* pointer width 32 or 64: no no-unsigned-wrap operation wraps; the pad size
\* is a value of pointer width equal to 16 times the pad byte, hence within
\* 0..4080 and a multiple of 16; the saved pointer is the pointer the site
\* was entered with; between the first restore and the second (so while the
\* call runs) the stack pointer plus the pad size is the saved pointer
\* modulo 2^width and has the saved pointer's residue modulo 16; from the
\* second restore on the stack pointer is exactly the saved pointer.
C23_PadArithmetic ==
    pc \in {"run", "returned"} =>
        /\ ~poison
        /\ PadSizeId \in DOMAIN regs =>
              /\ Len(regs[PadSizeId]) = LimbsOf(8 * ptrSize)
              /\ 8 * ptrSize \in {32, 64}
              /\ regs[PadSizeId] = Word(8 * ptrSize, StackAlignment * padByte)
              /\ StackAlignment * padByte \in 0..4080
              /\ (StackAlignment * padByte) % 16 = 0
        /\ SavedId \in DOMAIN regs => regs[SavedId] = input.sp
        /\ idx <= First(RestoreSteps) => sp = input.sp
        /\ (idx > First(RestoreSteps) /\ idx <= Last(RestoreSteps)) =>
              /\ First(RestoreSteps) < CallStep /\ CallStep < Last(RestoreSteps)
              /\ AddWords(sp, regs[PadSizeId]) = input.sp
              /\ sp[1] % StackAlignment = input.sp[1] % StackAlignment
        /\ idx > Last(RestoreSteps) => sp = input.sp

\* a 32-bit site entered with stack pointer 16 and the largest pad has
\* returned: the pad size was 4080, the subtraction wrapped to 2^32 - 4064,
\* and the stack pointer is 16 again
C23_Witness ==
    /\ pc = "returned"
    /\ ptrSize = 4
    /\ padByte = 255
    /\ input.sp = Word(32, 16)
    /\ regs[PadSizeId] = <<4080, 0>>
    /\ regs[FirstFreshId + 5] = <<61472, 65535>>
    /\ sp = <<16, 0>>
    /\ ~poison

(***************************************************************************)
(* C24: the brackets of one block, in instruction order.                    *)
(***************************************************************************)
\* the positions in blk of the original call sites and of the calls of
\* llvm.stacksave and llvm.stackrestore
BracketEvents(blk) ==
    {q \in DOMAIN blk :
        \/ isOriginalCall(blk[q])
        \/ isCallTo(blk[q], "llvm.stacksave")
        \/ isCallTo(blk[q], "llvm.stackrestore")}

\* the r-th position of E
EventAt(E, r) == CHOOSE q \in E : Cardinality({e \in E : e <= q}) = r

\* the position in blk of the pad load that feeds the restore i:
\* inttoptr(sub(_, mul(zext(load), 16)))
PadLoadOf(blk, i) ==
    LET at(v) == blk[IndexOf(blk, v.id)]
    IN  IndexOf(blk, at(at(at(at(i.ops[1]).ops[1]).ops[2]).ops[1]).ops[1].id)

\* the events of blk are brackets laid end to end: save, restore, call,
\* restore of that save; the pad load of a bracket lies after the bracket
\* before it
isBracketed(blk, E) ==
    /\ Cardinality(E) % 4 = 0
    /\ \A r \in 1..Cardinality(E) :
       \A q \in {EventAt(E, r)} :
          CASE r % 4 = 1 -> isCallTo(blk[q], "llvm.stacksave")
            [] r % 4 = 2 ->
                 /\ isCallTo(blk[q], "llvm.stackrestore")
                 /\ blk[q].ops[1] # Inst(blk[EventAt(E, r - 1)].id)
                 /\ PadLoadOf(blk, blk[q]) < EventAt(E, r - 1)
                 /\ r > 2 => PadLoadOf(blk, blk[q]) > EventAt(E, r - 2)
            [] r % 4 = 3 -> isOriginalCall(blk[q])
            [] OTHER ->
                 /\ isCallTo(blk[q], "llvm.stackrestore")
                 /\ blk[q].ops[1] = Inst(blk[EventAt(E, r - 3)].id)

\* C24: in every function stack randomization has transformed, from then
\* to the end of the pass: every block holds exactly the call instructions
\* it held in the input (none of the inserted calls got an original's place,
\* none was lost), one stacksave and two stackrestores per original call,
\* and read in instruction order they form the sequence (save, restore,
\* call, restore of that save) repeated, so a bracket closes before the
\* next one opens, also when the two calls were adjacent in the input; the
\* pad load of a bracket comes after the closing restore of the bracket
\* before it.
C24_BracketsDisjoint ==
    \A f \in Padded :
    \A B \in {FnOf(funcs, f).blocks} :
        /\ DOMAIN B = DOMAIN InputBody(f)
        /\ \A b \in DOMAIN B : \A blk \in {B[b]} : \A E \in {BracketEvents(blk)} :
            /\ {blk[q].id : q \in {e \in E : isOriginalCall(blk[e])}}
                 = {i.id : i \in {j \in Range(InputBody(f)[b]) : isCallInst(j)}}
            /\ Cardinality({q \in E : isCallTo(blk[q], "llvm.stacksave")})
                 = Cardinality({j \in Range(InputBody(f)[b]) : isCallInst(j)})
            /\ Cardinality({q \in E : isCallTo(blk[q], "llvm.stackrestore")})
                 = 2 * Cardinality({j \in Range(InputBody(f)[b]) : isCallInst(j)})
            /\ isBracketed(blk, E)

\* the pass has finished; a function whose input body had three calls in a
\* row (and a fourth further on) carries four brackets, and the closing
\* restore of the first is directly followed by the pad access of the second
C24_Witness ==
    /\ pc = "done"
    /\ \E f \in Padded :
        /\ \E b \in DOMAIN InputBody(f) : \E p \in DOMAIN InputBody(f)[b] :
              /\ p + 2 \in DOMAIN InputBody(f)[b]
              /\ \A k \in 0..2 : isCallInst(InputBody(f)[b][p + k])
        /\ \E blk \in Range(FnOf(funcs, f).blocks) :
              /\ Cardinality(BracketEvents(blk)) = 16
              /\ isBracketed(blk, BracketEvents(blk))
              /\ \E q \in DOMAIN blk :
                    /\ isCallTo(blk[q], "llvm.stackrestore")
                    /\ q > 1 /\ isOriginalCall(blk[q - 1])
                    /\ blk[q + 1].op = "load"

(***************************************************************************)
(* C25: Intrinsic Lowering and the list it walks (SpecLowerFair).           *)
(***************************************************************************)
\* the positions of the functions the pass has created
CreatedAt == {k \in DOMAIN funcs : ~hasHandle(input.funcs, funcs[k].h)}

\* the libcall names the intrinsics of the input map to
WantedLibcalls ==
    {GetLibcall(input.funcs[i].name) : i \in LowerCandidates} \ {""}

WarningFor(name) == "warning: unable to handle intrinsic " \o name

\* what holds of the list, the scan position and the created declarations
C25_Bounded ==
    pc \in {"scan", "delete", "lowered"} =>
        /\ \A k \in CreatedAt :
              /\ ~isIntrinsic(funcs[k])
              /\ isDeclaration(funcs[k])
              /\ funcs[k].name \in WantedLibcalls
              /\ funcs[k].h \notin toDelete
              /\ \A w \in DOMAIN warnings : warnings[w] # WarningFor(funcs[k].name)
              /\ \A l \in CreatedAt : funcs[l].name = funcs[k].name => l = k
        /\ Cardinality(CreatedAt) <= Cardinality(WantedLibcalls)
        /\ toDelete \subseteq {input.funcs[i].h : i \in LowerCandidates}
        /\ pc = "scan" =>
              /\ idx <= Len(funcs) + 1
              /\ Len(funcs) = Len(input.funcs) + Cardinality(CreatedAt)
              /\ \A i \in DOMAIN input.funcs : funcs[i].h = input.funcs[i].h
        /\ pc \in {"delete", "lowered"} =>
              idx = Len(input.funcs) + Cardinality(CreatedAt) + 1
        /\ pc = "lowered" =>
              \A i \in DOMAIN input.funcs : \A f \in {input.funcs[i]} :
                  /\ Cardinality({w \in DOMAIN warnings :
                                     warnings[w] = WarningFor(f.name)})
                       = IF i \in LowerCandidates /\ GetLibcall(f.name) = ""
                         THEN 1 ELSE 0
                  /\ f.h \in toDelete
                       <=> (i \in LowerCandidates /\ GetLibcall(f.name) # "")

\* one round of the scan: it moves on by one position, the list keeps what
\* it had where it had it and grows by at most one function at its end,
\* and only the function under the scan is marked or warned about
C25_Round ==
    (pc = "scan" /\ pc' = "scan") =>
        /\ idx' = idx + 1
        /\ Len(funcs') \in {Len(funcs), Len(funcs) + 1}
        /\ \A k \in DOMAIN funcs : funcs'[k].h = funcs[k].h
        /\ toDelete' \ toDelete \subseteq {funcs[idx].h}
        /\ \/ warnings' = warnings
           \/ warnings' = Append(warnings, WarningFor(funcs[idx].name))

\* C25: Intrinsic Lowering terminates, and while it runs: every function
\* it has created is a declaration named after a libcall some intrinsic of
\* the input maps to, is not an intrinsic, is never marked for deletion and
\* never warned about, and no two created functions share a name; the scan
\* moves over the list one position per round while the list only grows at
\* its end, and when it stops it has passed every input function and every
\* created declaration; in the end each input function was marked or warned
\* about exactly when it is an intrinsic that is not always inlined, and
\* then once.
C25_LoweringTerminates ==
    /\ <>Lowered
    /\ []C25_Bounded
    /\ [][C25_Round]_vars

\* the pass has ended on a module that declared both memcpy intrinsics, the
\* sqrt intrinsic and an intrinsic without a libcall, and no memcpy: two
\* declarations were created, the scan passed both, one warning was written
C25_Witness ==
    /\ Lowered
    /\ hasFunction(input.funcs, "llvm.memcpy.p0.p0.i64")
    /\ hasFunction(input.funcs, "llvm.memcpy.p0.p0.i32")
    /\ ~hasFunction(input.funcs, "memcpy")
    /\ {funcs[k].name : k \in CreatedAt} = {"memcpy", "sqrt"}
    /\ Cardinality(CreatedAt) = 2
    /\ idx = Len(input.funcs) + 3
    /\ Len(warnings) = 1
    /\ Cardinality(toDelete) = 3

====
